---- MODULE Spec2Model ----
(***************************************************************************)
(* A model of wal-g's backup engine.                                       *)
(*                                                                         *)
(*   Spec      the Uploader (internal/uploader.go) driven by the backup    *)
(*             coordinator of spec.md 4.9: retries, the Failed latch,      *)
(*             clone, finish and the sentinel commit barrier.              *)
(*   SpecPipe  the CompressAndEncrypt producer task and its pipe.          *)
(*   SpecPage  the increment decoder of internal/pagefile_new.go.          *)
(*   SpecMissing  RestoreMissingPages on any target and base stream.       *)
(*   SpecRestore  a file restored from its base backup and an increment.   *)
(*   SpecWal   wal-push with and without the overwrite check.              *)
(*   SpecCopy  startCopy of internal/copy_handler.go.                      *)
(*   SpecCompose  SimpleTarBallComposer on the tarball queue.              *)
(*   SpecQuery  the backup control queries of PgQueryRunner.               *)
(*   SpecLzo   DecompressLzo on complete and cut .lzo streams.             *)
(*   SpecExists  CheckExistence of Backup and Archive.                     *)
(*   SpecFileTar  the writer chain of FileTarBall.                         *)
(*   SpecPush  UploadFile: the producer task feeding Upload's retries.     *)
(*   SpecHeader  getIncrementHeaderFields and the loops over diffMap at    *)
(*             the width of a uint32.                                      *)
(*   SpecSize  the byte counter of Upload and DisableSizeTracking.         *)
(*   SpecMeta  walMetadataBulkUploader.                                    *)
(*   SpecParts  PushStreamParts on any stream and part size.               *)
(*   SpecFetch  a backup streamed to the stdin of the restore command.     *)
(*   SpecCrypt  concurrent Encrypt calls on one Crypter.                   *)
(*   SpecComposeFair, SpecPushFair, SpecPartsFair  the same under the      *)
(*             scheduler's fairness, for the termination properties.       *)
(***************************************************************************)
EXTENDS Integers, Sequences, FiniteSets, TLC

VARIABLES
    \* ---- Uploader and coordinator
    uploaders,      \* the Uploader objects that exist: "orig" (NewUploader), "clone"
    Failed,         \* Uploader.Failed of each uploader
    waitGroup,      \* counter of Uploader.waitGroup of each uploader
    tasks,          \* object id -> the Upload call made for that object
    storage,        \* objects for which a Folder.PutObject succeeded
    cpc,            \* state of the backup coordinator (spec.md 4.9)
    stopReturned,   \* pg_stop_backup has returned successfully
    failedAtCheck,  \* what the coordinator read from Failed before the sentinel
    finishAlert,    \* what the last finish() loaded from Failed (alert printed)
    \* ---- CompressAndEncrypt
    cePc,           \* position of the producer task
    hasCrypter,     \* crypter != nil
    srcLeft,        \* chunks the source still holds
    pipeBuf,        \* chunks of a pending pipe write (the writer blocks on them)
    pipe,           \* "open", or what the write end was closed with
    consumed,       \* chunks the consumer has read
    consumerSaw,    \* how the stream ended for the consumer
    closeLog,       \* the close calls made so far, in order
    ceFailed,       \* the layers that have failed
    \* ---- increment decoder
    increment,      \* the increment stream handed to the decoder
    target,         \* the pages of the target file
    target0,        \* the target file before the call
    pageOp,         \* the decoder function that was called
    pageErr,        \* what it returned
    \* ---- restore from a base backup
    base,           \* the pages of the file in the base backup (the base stream)
    baseLeft,       \* pages the base reader still holds
    live,           \* the pages of the file in the data directory at stop time
    baseLsn,        \* start LSN of the base backup
    \* ---- wal-push
    walArchive,     \* WAL name -> the object the archive folder holds under it
    walMeta,        \* WAL names whose metadata object was put
    walPc,          \* position of the uploadWALFile call
    walPush,        \* name and bytes of the local WAL file being pushed
    walAtCall,      \* the archived copy of that WAL when the push began
    walCheckIo,     \* whether checkWALOverwrite could read what it compares
    walErr,         \* what uploadWALFile returned
    walPuts,        \* PutObject calls of this push for its WAL
    walPushes,      \* wal-push operations so far
    preventWalOverwrite,  \* the PreventWalOverwriteSetting
    uploadWalMetadata,    \* viper.IsSet(UploadWalMetadata)
    \* ---- startCopy
    infosLen,       \* len(infos)
    copyPc,         \* position of startCopy
    copyI,          \* i of the outer loop
    copyJ,          \* j of the inner loop
    jobsToRun,      \* jobsToRun of the current batch
    copyWg,         \* counter of the batch's WaitGroup
    copyCalls,      \* element of infos -> number of copyObject calls for it
    copyRunning,    \* elements whose copyObject has not returned
    \* ---- SimpleTarBallComposer
    tbQueue,        \* the tarballs in the queue, oldest first
    tbCount,        \* tarballs created so far
    tbCut,          \* tarballs that were cut
    wCall,          \* the composer call the walker is in
    wCalls,         \* AddFile and AddHeader calls so far
    wLog,           \* those calls, in order
    wState,         \* what the walker does
    ptasks,         \* the tasks started with errorGroup.Go, in order
    ctxDone,        \* the context of the error group is cancelled
    groupErr,       \* error of the group: 0, or the task whose error it is
    errLog,         \* the tasks that returned an error, in order
    packSets,       \* first result of PackTarballs
    packErr,        \* second result of PackTarballs
    \* ---- PgQueryRunner
    Version,        \* PgQueryRunner.Version (server_version_num)
    qOp,            \* the query runner function that was called
    qPc,            \* position of stopBackup
    qQuery,         \* the query a Build function returned
    qErr,           \* the error the function returned
    txStatus,       \* status of the transaction of stopBackup
    sqlLog,         \* the statements the connection executed, in order
    stopResult,     \* label, offsetMap and lsnStr returned by stopBackup
    \* ---- DecompressLzo
    lzSrc,          \* src: the fields of the .lzo stream, in order
    lzPos,          \* fields of src read so far
    lzPc,           \* position of DecompressLzo
    lzUncom,        \* the variable uncom
    lzCom,          \* the variable com
    lzDst,          \* blocks written to dst, in order
    lzErr,          \* the error DecompressLzo returned
    \* ---- CheckExistence (Backup, Archive)
    bucket,         \* the keys stored in the bucket
    exKind,         \* the type CheckExistence was called on
    exKey,          \* the key it asked for
    exHead,         \* the error HeadObject returned
    exExists,       \* first result of CheckExistence
    exErr,          \* second result of CheckExistence
    \* ---- FileTarBall
    ftCrypter,      \* crypter.IsUsed()
    ftPc,           \* state of the FileTarBall
    ftSink,         \* the writer the compressor writes to
    ftUnderlying,   \* the writers that are only closed with the chain
    ftFile,         \* the chunks that reached the part file, in order
    ftWritten,      \* chunks written to the tar writer so far
    \* ---- UploadFile: CompressAndEncrypt feeding Upload
    pfLen,          \* chunks the file holds
    pfSent,         \* chunks of the compressed stream the pipe has taken from the producer
    pfProd,         \* the CompressAndEncrypt task
    pfUpPc,         \* position of Upload
    pfAttempt,      \* PutObject calls so far
    pfRead,         \* what the current PutObject call has read from content
    pfStored,       \* the object exists in the folder
    pfStore,        \* the content of the stored object
    \* ---- getIncrementHeaderFields and the loops over diffMap
    hdOp,           \* the function that reads the header, "none" before the call
    hdCount,        \* diffBlockCount, the uint32 of the increment's header
    hdLen,          \* len(diffMap) as allocated
    hdI,            \* the loop variable i
    hdPc,           \* "none", "loop", "error", "panic" or "done"
    \* ---- Upload's size tracking
    szTar,          \* tarSize of each uploader: "size" (the counter of NewUploader), "nil", or "absent" before the uploader is made
    szOff,          \* the uploaders DisableSizeTracking was called on
    szCounter,      \* the int64 tarSize points to
    szUp,           \* the Upload calls made, in order
    \* ---- walMetadataBulkUploader
    mdKind,         \* each local metadata file of the segment group: "absent", "good", "unreadable" or "unparsable"
    mdPresent,      \* the local metadata files in the folder
    mdGlob,         \* walMetadataFiles, the files the glob found
    mdI,            \* the files of walMetadataFiles the current loop has done
    mdArray,        \* the files whose entries are in walMetadataArray
    mdUpload,       \* the error of the Upload of the consolidated object: "none" before it, "nil" or "error"
    mdPc,           \* "none", "read", "upload", "remove" or "done"
    \* ---- PushStreamParts
    psInput,        \* the bytes of the input stream
    psMax,          \* maxFileSize, MysqlPartialBackupFileSize as viper reads it
    psOff,          \* the bytes of the stream read so far
    psI,            \* the loop variable i
    psFiles,        \* files, as the indexes in the names
    psCur,          \* the bytes the current part read from the stream
    psAttempt,      \* the attempt of Upload for the current part
    psLost,         \* the compressed frames that failed attempts took from the pipe
    psStored,       \* the objects stored: name index and content
    psPc,           \* "none", "part", "upload", "done" or "error"
    \* ---- streaming a backup to the restore command
    sfFn,           \* the function called, "none" before the call
    sfPc,           \* "none", "pipe", "start", "load", "wait" or "returned"
    sfCmd,          \* the restore command: "notStarted", "running" or "exited"
    sfExit,         \* the exit code of the command, -1 while it has none
    sfSent,         \* the chunks of the backup written to the command's stdin
    sfLoadErr,      \* the error of the download: "none" before it, "nil" or "error"
    sfCmdErr,       \* the error of cmd.Wait: "none" before it returned, "nil", "ExitError" or "ioError"
    sfRet,          \* what the function returned: "none" before, "nil" or the error
    \* ---- Crypter.Encrypt and setupPubKey
    crPubKey,       \* crypter.PubKey: where the key ring comes from and which load made it
    crLoads,        \* the key rings read and assigned to PubKey so far
    crPc,           \* where each Encrypt call is: "idle", "rlocked", "unlocked", "locked", "encrypt", "done" or "failed"
    crReaders,      \* the calls that hold mutex.RLock
    crWriter,       \* the call that holds mutex.Lock, 0 for none
    crSeen          \* the PubKey each call handed to openpgp.Encrypt

uploadVars == <<uploaders, Failed, waitGroup, tasks, storage, cpc, stopReturned,
                failedAtCheck, finishAlert>>

pipeVars == <<cePc, hasCrypter, srcLeft, pipeBuf, pipe, consumed, consumerSaw, closeLog,
              ceFailed>>

pageVars == <<increment, target, target0, pageOp, pageErr>>

restoreVars == <<base, baseLeft, live, baseLsn>>

walVars == <<walArchive, walMeta, walPc, walPush, walAtCall, walCheckIo, walErr, walPuts,
             walPushes, preventWalOverwrite, uploadWalMetadata>>

copyVars == <<infosLen, copyPc, copyI, copyJ, jobsToRun, copyWg, copyCalls, copyRunning>>

composeVars == <<tbQueue, tbCount, tbCut, wCall, wCalls, wLog, wState, ptasks, ctxDone,
                 groupErr, errLog, packSets, packErr>>

queryVars == <<Version, qOp, qPc, qQuery, qErr, txStatus, sqlLog, stopResult>>

lzoVars == <<lzSrc, lzPos, lzPc, lzUncom, lzCom, lzDst, lzErr>>

existsVars == <<bucket, exKind, exKey, exHead, exExists, exErr>>

fileTarVars == <<ftCrypter, ftPc, ftSink, ftUnderlying, ftFile, ftWritten>>

pushVars == <<pfLen, pfSent, pfProd, pfUpPc, pfAttempt, pfRead, pfStored, pfStore>>

headerVars == <<hdOp, hdCount, hdLen, hdI, hdPc>>

sizeVars == <<szTar, szOff, szCounter, szUp>>

metaVars == <<mdKind, mdPresent, mdGlob, mdI, mdArray, mdUpload, mdPc>>

partsVars == <<psInput, psMax, psOff, psI, psFiles, psCur, psAttempt, psLost, psStored,
               psPc>>

fetchVars == <<sfFn, sfPc, sfCmd, sfExit, sfSent, sfLoadErr, sfCmdErr, sfRet>>

cryptVars == <<crPubKey, crLoads, crPc, crReaders, crWriter, crSeen>>

vars == <<uploadVars, pipeVars, pageVars, restoreVars, walVars, copyVars, composeVars,
          queryVars, lzoVars, existsVars, fileTarVars, pushVars, headerVars, sizeVars,
          metaVars, partsVars, fetchVars, cryptVars>>

\* The state of the other components, which a step of one component leaves alone
notUpload == <<pipeVars, pageVars, restoreVars, walVars, copyVars, composeVars, queryVars,
               lzoVars, existsVars, fileTarVars, pushVars, headerVars, sizeVars, metaVars,
               partsVars, fetchVars, cryptVars>>
notPipe == <<uploadVars, pageVars, restoreVars, walVars, copyVars, composeVars, queryVars,
             lzoVars, existsVars, fileTarVars, pushVars, headerVars, sizeVars, metaVars,
             partsVars, fetchVars, cryptVars>>
notPage == <<uploadVars, pipeVars, restoreVars, walVars, copyVars, composeVars, queryVars,
             lzoVars, existsVars, fileTarVars, pushVars, headerVars, sizeVars, metaVars,
             partsVars, fetchVars, cryptVars>>
notDecoder == <<uploadVars, pipeVars, walVars, copyVars, composeVars, queryVars, lzoVars,
                existsVars, fileTarVars, pushVars, headerVars, sizeVars, metaVars,
                partsVars, fetchVars, cryptVars>>
notWal == <<uploadVars, pipeVars, pageVars, restoreVars, copyVars, composeVars, queryVars,
            lzoVars, existsVars, fileTarVars, pushVars, headerVars, sizeVars, metaVars,
            partsVars, fetchVars, cryptVars>>
notCopy == <<uploadVars, pipeVars, pageVars, restoreVars, walVars, composeVars, queryVars,
             lzoVars, existsVars, fileTarVars, pushVars, headerVars, sizeVars, metaVars,
             partsVars, fetchVars, cryptVars>>
notCompose == <<uploadVars, pipeVars, pageVars, restoreVars, walVars, copyVars, queryVars,
                lzoVars, existsVars, fileTarVars, pushVars, headerVars, sizeVars, metaVars,
                partsVars, fetchVars, cryptVars>>
notQuery == <<uploadVars, pipeVars, pageVars, restoreVars, walVars, copyVars, composeVars,
              lzoVars, existsVars, fileTarVars, pushVars, headerVars, sizeVars, metaVars,
              partsVars, fetchVars, cryptVars>>
notLzo == <<uploadVars, pipeVars, pageVars, restoreVars, walVars, copyVars, composeVars,
            queryVars, existsVars, fileTarVars, pushVars, headerVars, sizeVars, metaVars,
            partsVars, fetchVars, cryptVars>>
notExists == <<uploadVars, pipeVars, pageVars, restoreVars, walVars, copyVars, composeVars,
               queryVars, lzoVars, fileTarVars, pushVars, headerVars, sizeVars, metaVars,
               partsVars, fetchVars, cryptVars>>
notFileTar == <<uploadVars, pipeVars, pageVars, restoreVars, walVars, copyVars,
                composeVars, queryVars, lzoVars, existsVars, pushVars, headerVars,
                sizeVars, metaVars, partsVars, fetchVars, cryptVars>>
notPush == <<uploadVars, pipeVars, pageVars, restoreVars, walVars, copyVars, composeVars,
             queryVars, lzoVars, existsVars, fileTarVars, headerVars, sizeVars, metaVars,
             partsVars, fetchVars, cryptVars>>
notHeader == <<uploadVars, pipeVars, pageVars, restoreVars, walVars, copyVars, composeVars,
               queryVars, lzoVars, existsVars, fileTarVars, pushVars, sizeVars, metaVars,
               partsVars, fetchVars, cryptVars>>
notSize == <<uploadVars, pipeVars, pageVars, restoreVars, walVars, copyVars, composeVars,
             queryVars, lzoVars, existsVars, fileTarVars, pushVars, headerVars, metaVars,
             partsVars, fetchVars, cryptVars>>
notMeta == <<uploadVars, pipeVars, pageVars, restoreVars, walVars, copyVars, composeVars,
             queryVars, lzoVars, existsVars, fileTarVars, pushVars, headerVars, sizeVars,
             partsVars, fetchVars, cryptVars>>
notParts == <<uploadVars, pipeVars, pageVars, restoreVars, walVars, copyVars, composeVars,
              queryVars, lzoVars, existsVars, fileTarVars, pushVars, headerVars, sizeVars,
              metaVars, fetchVars, cryptVars>>
notFetch == <<uploadVars, pipeVars, pageVars, restoreVars, walVars, copyVars, composeVars,
              queryVars, lzoVars, existsVars, fileTarVars, pushVars, headerVars, sizeVars,
              metaVars, partsVars, cryptVars>>
notCrypt == <<uploadVars, pipeVars, pageVars, restoreVars, walVars, copyVars, composeVars,
              queryVars, lzoVars, existsVars, fileTarVars, pushVars, headerVars, sizeVars,
              metaVars, partsVars, fetchVars>>

(***************************************************************************)
(* Bounds                                                                  *)
(***************************************************************************)
MaxParts == 2          \* tar partitions the walker hands to the uploader
MaxCloneObjects == 1   \* objects uploaded through the cloned uploader

(***************************************************************************)
(* Uploader                                                                *)
(***************************************************************************)
retries_two == 3 - 1

\* const retries = 3
retries == 3

DataObjs == {<<"part", k>> : k \in 1..MaxParts} \cup {<<"label", 1>>}
SentinelObj == <<"sentinel", 1>>
DeltaObjs == {<<"delta", k>> : k \in 1..MaxCloneObjects}

Running(o) == o \in DOMAIN tasks /\ tasks[o].pc \in {"loop", "exhausted"}
Returned(o) == o \in DOMAIN tasks /\ tasks[o].pc \in {"nil", "err"}

\* NewUploader: a fresh WaitGroup and Failed.Store(false)
NewUploader ==
    /\ uploaders = {"orig"}
    /\ Failed = [u \in {"orig"} |-> FALSE]
    /\ waitGroup = [u \in {"orig"} |-> 0]

\* The call Upload(path, content) on uploader u, before its first attempt.
\* async: the caller registered it in u's WaitGroup and runs it in a task.
NewTask(u, async) ==
    [uploader |-> u, outcomes |-> <<>>, pc |-> "loop", async |-> async,
     done |-> FALSE, failedAtCall |-> Failed[u]]

FailedOnReturn_store(failed, err) == err

FailedOnReturn_noLatch(failed, err) == failed

\* What Upload leaves in Failed: Store(true) after the loop, nothing on success
FailedOnReturn(failed, err) == IF err THEN TRUE ELSE failed

\* Where the loop goes after attempt number i ended with ok
UploadNextPc(i, ok) ==
    IF ok THEN "nil" ELSE IF i < retries THEN "loop" ELSE "exhausted"

\* One iteration of Upload's loop: a PutObject call and its outcome
Upload(o, ok) ==
    /\ o \in DOMAIN tasks
    /\ tasks[o].pc = "loop"
    /\ LET t == tasks[o]
           outs == Append(t.outcomes, ok)
       IN /\ tasks' = [tasks EXCEPT ![o] =
                          [t EXCEPT !.outcomes = outs,
                                    !.pc = UploadNextPc(Len(outs), ok)]]
          /\ storage' = IF ok THEN storage \cup {o} ELSE storage
          /\ Failed' = IF ok
                       THEN [Failed EXCEPT ![t.uploader] = FailedOnReturn(@, FALSE)]
                       ELSE Failed
    /\ UNCHANGED <<notUpload, uploaders, waitGroup, cpc, stopReturned, failedAtCheck, finishAlert>>

\* The loop ended without a success: Failed.Store(true), return err
UploadExhausted(o) ==
    /\ o \in DOMAIN tasks
    /\ tasks[o].pc = "exhausted"
    /\ Failed' = [Failed EXCEPT ![tasks[o].uploader] = FailedOnReturn(@, TRUE)]
    /\ tasks' = [tasks EXCEPT ![o].pc = "err"]
    /\ UNCHANGED <<notUpload, uploaders, waitGroup, storage, cpc, stopReturned, failedAtCheck,
                   finishAlert>>

finish_nowait(u) ==
    /\ finishAlert' = IF Failed[u] THEN "alert" ELSE "quiet"

\* finish: waitGroup.Wait(), then load Failed and print the alert if it is set
finish(u) ==
    /\ waitGroup[u] = 0
    /\ finishAlert' = IF Failed[u] THEN "alert" ELSE "quiet"

\* clone: a new Uploader with a new WaitGroup; the composite literal copies the
\* atomic.Value Failed by value
clone(u) ==
    /\ "clone" \notin uploaders
    /\ uploaders' = uploaders \cup {"clone"}
    /\ Failed' = Failed @@ ("clone" :> Failed[u])
    /\ waitGroup' = waitGroup @@ ("clone" :> 0)

(***************************************************************************)
(* Callers of the uploader: the coordinator of spec.md 4.9, its walker     *)
(* workers, and the owner of the cloned uploader.                          *)
(***************************************************************************)
\* waitGroup.Add(1) and a task that runs Upload(o) on u
StartUpload(u, o) ==
    /\ o \notin DOMAIN tasks
    /\ waitGroup' = [waitGroup EXCEPT ![u] = @ + 1]
    /\ tasks' = tasks @@ (o :> NewTask(u, TRUE))

\* defer waitGroup.Done() of a task whose Upload has returned
TaskDone(o) ==
    /\ Returned(o)
    /\ tasks[o].async
    /\ ~tasks[o].done
    /\ tasks' = [tasks EXCEPT ![o].done = TRUE]
    /\ waitGroup' = [waitGroup EXCEPT ![tasks[o].uploader] = @ - 1]
    /\ UNCHANGED <<notUpload, uploaders, Failed, storage, cpc, stopReturned, failedAtCheck,
                   finishAlert>>

\* IDLE -> STARTING: invoke pg_start_backup
StartBackup ==
    /\ cpc = "IDLE"
    /\ cpc' = "STARTING"
    /\ UNCHANGED <<notUpload, uploaders, Failed, waitGroup, tasks, storage, stopReturned,
                   failedAtCheck, finishAlert>>

\* STARTING -> RUNNING, or FAILED when pg_start_backup fails
StartBackupReturn(ok) ==
    /\ cpc = "STARTING"
    /\ cpc' = IF ok THEN "RUNNING" ELSE "FAILED"
    /\ UNCHANGED <<notUpload, uploaders, Failed, waitGroup, tasks, storage, stopReturned,
                   failedAtCheck, finishAlert>>

\* A walker worker cuts tar partition k and hands it to the uploader
WalkerDispatch(k) ==
    /\ cpc = "RUNNING"
    /\ k \in 1..MaxParts
    /\ \A j \in 1..(k - 1) : <<"part", j>> \in DOMAIN tasks
    /\ StartUpload("orig", <<"part", k>>)
    /\ UNCHANGED <<notUpload, uploaders, Failed, storage, cpc, stopReturned, failedAtCheck,
                   finishAlert>>

\* The walker has packed every file: the coordinator waits for the uploads
WalkerDone ==
    /\ cpc = "RUNNING"
    /\ cpc' = "DRAINING"
    /\ UNCHANGED <<notUpload, uploaders, Failed, waitGroup, tasks, storage, stopReturned,
                   failedAtCheck, finishAlert>>

\* A component fails while the backup runs
ComponentError ==
    /\ cpc = "RUNNING"
    /\ cpc' = "ABORTING"
    /\ UNCHANGED <<notUpload, uploaders, Failed, waitGroup, tasks, storage, stopReturned,
                   failedAtCheck, finishAlert>>

\* ABORTING -> FAILED: clean up, upload no sentinel
Abort ==
    /\ cpc = "ABORTING"
    /\ cpc' = "FAILED"
    /\ UNCHANGED <<notUpload, uploaders, Failed, waitGroup, tasks, storage, stopReturned,
                   failedAtCheck, finishAlert>>

\* The coordinator's Finish calls: after the walker, and before the sentinel
CoordFinish ==
    /\ cpc \in {"DRAINING", "FINISHING"}
    /\ finish("orig")
    /\ cpc' = IF cpc = "DRAINING" THEN "STOPPING" ELSE "CHECK"
    /\ UNCHANGED <<notUpload, uploaders, Failed, waitGroup, tasks, storage, stopReturned,
                   failedAtCheck>>

\* STOPPING: pg_stop_backup(false) returns, or fails
StopBackupReturn(ok) ==
    /\ cpc = "STOPPING"
    /\ stopReturned' = ok
    /\ cpc' = IF ok THEN "LABEL" ELSE "ABORTING"
    /\ UNCHANGED <<notUpload, uploaders, Failed, waitGroup, tasks, storage, failedAtCheck,
                   finishAlert>>

\* STOPPING: label and spcmap go into a final tar partition
UploadLabel ==
    /\ cpc = "LABEL"
    /\ StartUpload("orig", <<"label", 1>>)
    /\ cpc' = "FINISHING"
    /\ UNCHANGED <<notUpload, uploaders, Failed, storage, stopReturned, failedAtCheck, finishAlert>>

\* The coordinator checks the Failed flag before the sentinel upload
CheckFailed ==
    /\ cpc = "CHECK"
    /\ failedAtCheck' = IF Failed["orig"] THEN "failed" ELSE "ok"
    /\ cpc' = IF Failed["orig"] THEN "FAILED" ELSE "UPLOADING_SENTINEL"
    /\ UNCHANGED <<notUpload, uploaders, Failed, waitGroup, tasks, storage, stopReturned,
                   finishAlert>>

\* UPLOADING-SENTINEL: Upload of <name>_backup_stop_sentinel.json
UploadSentinel ==
    /\ cpc = "UPLOADING_SENTINEL"
    /\ SentinelObj \notin DOMAIN tasks
    /\ tasks' = tasks @@ (SentinelObj :> NewTask("orig", FALSE))
    /\ UNCHANGED <<notUpload, uploaders, Failed, waitGroup, storage, cpc, stopReturned,
                   failedAtCheck, finishAlert>>

\* UPLOADING-SENTINEL -> DONE, or FAILED when the sentinel upload failed
SentinelReturn ==
    /\ cpc = "UPLOADING_SENTINEL"
    /\ Returned(SentinelObj)
    /\ cpc' = IF tasks[SentinelObj].pc = "nil" THEN "DONE" ELSE "FAILED"
    /\ UNCHANGED <<notUpload, uploaders, Failed, waitGroup, tasks, storage, stopReturned,
                   failedAtCheck, finishAlert>>

\* Another component takes a clone of the coordinator's uploader
Clone ==
    /\ clone("orig")
    /\ UNCHANGED <<notUpload, tasks, storage, cpc, stopReturned, failedAtCheck, finishAlert>>

\* The clone's owner calls Upload on it, one object after another
CloneUpload(k) ==
    /\ "clone" \in uploaders
    /\ k \in 1..MaxCloneObjects
    /\ <<"delta", k>> \notin DOMAIN tasks
    /\ \A j \in 1..(k - 1) : Returned(<<"delta", j>>)
    /\ tasks' = tasks @@ (<<"delta", k>> :> NewTask("clone", FALSE))
    /\ UNCHANGED <<notUpload, uploaders, Failed, waitGroup, storage, cpc, stopReturned,
                   failedAtCheck, finishAlert>>

AllObjs == DataObjs \cup {SentinelObj} \cup DeltaObjs

\* The uploader after NewUploader, before the coordinator starts
UploadIdle ==
    /\ NewUploader
    /\ tasks = <<>>
    /\ storage = {}
    /\ cpc = "IDLE"
    /\ stopReturned = FALSE
    /\ failedAtCheck = "unchecked"
    /\ finishAlert = "none"

\* No CompressAndEncrypt call has been made
PipeIdle ==
    /\ cePc = "idle"
    /\ hasCrypter = FALSE
    /\ srcLeft = 0
    /\ pipeBuf = 0
    /\ pipe = "open"
    /\ consumed = 0
    /\ consumerSaw = "none"
    /\ closeLog = <<>>
    /\ ceFailed = {}

\* The empty increment
NoIncrement == [magicOk |-> TRUE, fileSize |-> 0, diffMap |-> <<>>, bodies |-> <<>>]

\* No increment is being decoded
PageIdle ==
    /\ increment = NoIncrement
    /\ target = <<>>
    /\ target0 = <<>>
    /\ pageOp = "none"
    /\ pageErr = "none"

\* No file is being restored from a base backup
RestoreIdle ==
    /\ base = <<>>
    /\ baseLeft = 0
    /\ live = <<>>
    /\ baseLsn = 0

\* No wal-push has been made
WalIdle ==
    /\ walArchive = <<>>
    /\ walMeta = {}
    /\ walPc = "idle"
    /\ walPush = [name |-> "", bytes |-> 0]
    /\ walAtCall = [exists |-> FALSE, data |-> 0]
    /\ walCheckIo = "none"
    /\ walErr = "none"
    /\ walPuts = 0
    /\ walPushes = 0
    /\ preventWalOverwrite = FALSE
    /\ uploadWalMetadata = FALSE

\* startCopy has not been called
CopyIdle ==
    /\ infosLen = 0
    /\ copyPc = "idle"
    /\ copyI = 0
    /\ copyJ = 0
    /\ jobsToRun = 0
    /\ copyWg = 0
    /\ copyCalls = <<>>
    /\ copyRunning = {}

\* The walker is between two calls
NoCall == [op |-> "none", pc |-> "none", tarBall |-> 0, afterCancel |-> FALSE]

\* No composer has been made
ComposeIdle ==
    /\ tbQueue = <<>>
    /\ tbCount = 0
    /\ tbCut = {}
    /\ wCall = NoCall
    /\ wCalls = 0
    /\ wLog = <<>>
    /\ wState = "idle"
    /\ ptasks = <<>>
    /\ ctxDone = FALSE
    /\ groupErr = 0
    /\ errLog = <<>>
    /\ packSets = "none"
    /\ packErr = 0

\* No query: the empty string a Build function returns with an error
NoQuery == [call |-> "", offsetFn |-> "", from |-> <<>>, columns |-> <<>>]

\* return "", "", "", err
NoStopResult == [label |-> "", offsetMap |-> "", lsnStr |-> ""]

\* No query has been built or run
QueryIdle ==
    /\ Version = 0
    /\ qOp = "none"
    /\ qPc = "none"
    /\ qQuery = NoQuery
    /\ qErr = "none"
    /\ txStatus = "none"
    /\ sqlLog = <<>>
    /\ stopResult = NoStopResult

\* DecompressLzo has not been called
LzoIdle ==
    /\ lzSrc = <<>>
    /\ lzPos = 0
    /\ lzPc = "none"
    /\ lzUncom = 0
    /\ lzCom = 0
    /\ lzDst = <<>>
    /\ lzErr = "none"

\* No existence check has been made
ExistsIdle ==
    /\ bucket = {}
    /\ exKind = "none"
    /\ exKey = "none"
    /\ exHead = "none"
    /\ exExists = FALSE
    /\ exErr = "none"

\* The FileTarBall has not been set up
FileTarIdle ==
    /\ ftCrypter = FALSE
    /\ ftPc = "none"
    /\ ftSink = "none"
    /\ ftUnderlying = <<>>
    /\ ftFile = <<>>
    /\ ftWritten = 0

\* UploadFile has not been called
PushIdle ==
    /\ pfLen = 0
    /\ pfSent = 0
    /\ pfProd = "none"
    /\ pfUpPc = "none"
    /\ pfAttempt = 0
    /\ pfRead = <<>>
    /\ pfStored = FALSE
    /\ pfStore = <<>>

\* No increment header is being read
HeaderIdle ==
    /\ hdOp = "none"
    /\ hdCount = [hi |-> 0, lo |-> 0]
    /\ hdLen = [hi |-> 0, lo |-> 0]
    /\ hdI = [hi |-> 0, lo |-> 0]
    /\ hdPc = "none"

\* No uploader counts bytes
SizeIdle ==
    /\ szTar = [u \in {"uploader", "clone"} |-> "absent"]
    /\ szOff = {}
    /\ szCounter = 0
    /\ szUp = <<>>

\* No consolidated WAL metadata is being made
MetaIdle ==
    /\ mdKind = <<>>
    /\ mdPresent = {}
    /\ mdGlob = <<>>
    /\ mdI = 0
    /\ mdArray = {}
    /\ mdUpload = "none"
    /\ mdPc = "none"

\* No stream is being pushed in parts
PartsIdle ==
    /\ psInput = <<>>
    /\ psMax = 0
    /\ psOff = 0
    /\ psI = 0
    /\ psFiles = <<>>
    /\ psCur = <<>>
    /\ psAttempt = 0
    /\ psLost = 0
    /\ psStored = <<>>
    /\ psPc = "none"

\* No backup is streamed to a command
FetchIdle ==
    /\ sfFn = "none"
    /\ sfPc = "none"
    /\ sfCmd = "notStarted"
    /\ sfExit = -1
    /\ sfSent = 0
    /\ sfLoadErr = "none"
    /\ sfCmdErr = "none"
    /\ sfRet = "none"

\* No Encrypt is running
CryptIdle ==
    /\ crPubKey = [from |-> "nil", n |-> 0]
    /\ crLoads = 0
    /\ crPc = <<>>
    /\ crReaders = {}
    /\ crWriter = 0
    /\ crSeen = <<>>

\* The other components at rest
RestIdle == RestoreIdle /\ WalIdle /\ CopyIdle /\ ComposeIdle /\ QueryIdle /\ LzoIdle /\ ExistsIdle /\ FileTarIdle /\ PushIdle /\ HeaderIdle /\ SizeIdle /\ MetaIdle /\ PartsIdle /\ FetchIdle /\ CryptIdle

Init == UploadIdle /\ PipeIdle /\ PageIdle /\ RestIdle

Next ==
    \/ \E o \in AllObjs, ok \in BOOLEAN : Upload(o, ok)
    \/ \E o \in AllObjs : UploadExhausted(o)
    \/ \E o \in AllObjs : TaskDone(o)
    \/ StartBackup
    \/ \E ok \in BOOLEAN : StartBackupReturn(ok)
    \/ \E k \in 1..MaxParts : WalkerDispatch(k)
    \/ WalkerDone
    \/ ComponentError
    \/ Abort
    \/ CoordFinish
    \/ \E ok \in BOOLEAN : StopBackupReturn(ok)
    \/ UploadLabel
    \/ CheckFailed
    \/ UploadSentinel
    \/ SentinelReturn
    \/ Clone
    \/ \E k \in 1..MaxCloneObjects : CloneUpload(k)

Spec == Init /\ [][Next]_vars

(***************************************************************************)
(* Claims about the uploader and the coordinator (checked under Spec)      *)
(***************************************************************************)
AllFailed(outs) == \A i \in 1..Len(outs) : ~outs[i]
ErrOn(u) == \E o \in DOMAIN tasks : tasks[o].uploader = u /\ tasks[o].pc = "err"

\* C1: Upload calls PutObject at most 3 times for an object and stops at the
\* first success; it returns nil exactly when an attempt succeeded, and it
\* returns an error and sets Failed exactly when all 3 attempts failed; an
\* Upload that succeeds (also after rejections) does not set Failed.
C1_UploadRetries ==
    /\ \A o \in DOMAIN tasks :
         LET t == tasks[o]
             n == Len(t.outcomes)
         IN /\ n <= 3
            /\ \A i \in 1..(n - 1) : ~t.outcomes[i]
            /\ (t.pc = "nil") <=> (n >= 1 /\ t.outcomes[n])
            /\ (t.pc \in {"exhausted", "err"}) <=> (n = 3 /\ AllFailed(t.outcomes))
            /\ (t.pc = "err") => Failed[t.uploader]
            /\ (o \in storage) <=> (t.pc = "nil")
    /\ Failed["orig"] <=> ErrOn("orig")
    /\ "clone" \in uploaders =>
          /\ ErrOn("clone") => Failed["clone"]
          /\ Failed["clone"] => (ErrOn("clone") \/ Failed["orig"])

\* C1 witness: two rejections, then an acceptance; Upload returned nil and
\* Failed is still false.
C1_Witness ==
    \E o \in DOMAIN tasks :
        /\ tasks[o].outcomes = <<FALSE, FALSE, TRUE>>
        /\ tasks[o].pc = "nil"
        /\ ~Failed[tasks[o].uploader]

\* C2: if all 3 attempts of a data object failed, the sentinel is never
\* uploaded and the coordinator ends in FAILED; the sentinel is in storage
\* only if the coordinator read Failed = false after all data uploads.
C2_NoSentinelAfterFailedUpload ==
    LET dataFailed == \E o \in DataObjs : o \in DOMAIN tasks /\ tasks[o].pc = "err"
    IN /\ (SentinelObj \in DOMAIN tasks) => failedAtCheck = "ok"
       /\ dataFailed => SentinelObj \notin DOMAIN tasks
       /\ dataFailed => cpc # "DONE"
       /\ (dataFailed /\ cpc = "CHECK") => Failed["orig"]

\* C2 witness: a data object exhausted its retries, the coordinator checked
\* the flag, skipped the sentinel and returned an error.
C2_Witness ==
    /\ \E o \in DataObjs : o \in DOMAIN tasks /\ tasks[o].pc = "err"
    /\ failedAtCheck = "failed"
    /\ cpc = "FAILED"
    /\ SentinelObj \notin storage

\* C3: the sentinel upload starts only after every data upload has completed
\* and pg_stop_backup has returned.
C3_SentinelAfterData ==
    (SentinelObj \in DOMAIN tasks) =>
        /\ stopReturned
        /\ <<"label", 1>> \in DOMAIN tasks
        /\ \A o \in DataObjs : o \in DOMAIN tasks => (Returned(o) /\ tasks[o].done)
        /\ cpc \notin {"IDLE", "STARTING", "RUNNING", "DRAINING", "STOPPING", "LABEL"}

\* C3 witness: the sentinel is in storage after all partitions and the label
\* partition were uploaded.
C3_Witness ==
    /\ SentinelObj \in storage
    /\ \A k \in 1..2 : <<"part", k>> \in storage
    /\ <<"label", 1>> \in storage
    /\ stopReturned

\* C4: Failed is false after NewUploader, and once it is true on an uploader
\* no later step (a succeeding Upload included) makes it false again.
C4_FailedWriteOnceTrue ==
    /\ \A u \in uploaders : ~Failed[u]
    /\ [][\A u \in uploaders : Failed[u] => Failed'[u]]_vars

\* C4 witness: an Upload that was called when Failed was already true has
\* succeeded, and Failed is still true.
C4_Witness ==
    \E o \in DOMAIN tasks :
        /\ tasks[o].failedAtCall
        /\ tasks[o].pc = "nil"
        /\ Failed[tasks[o].uploader]

\* C5: when an Upload through the clone exhausts its retries, the Failed flag
\* read through the original uploader is true afterwards.
C5_CloneFailureLatchesOriginal ==
    \A o \in DOMAIN tasks :
        (tasks[o].uploader = "clone" /\ tasks[o].pc = "err") => Failed["orig"]

MaxChunks == 2         \* chunks a source holds

PipeErrors == {"errCopy", "errCompress", "errEncrypt"}

\* io.Pipe: the first close decides what reads return; CloseWithError never
\* overwrites it, and Close() is CloseWithError(nil), which reads as EOF
CloseWithError(p, e) == IF e = "none" \/ p # "open" THEN p ELSE e

cePipeClose_copySilent(pc, ok) ==
    CASE pc = "copy" -> "none"
      [] pc = "closeCompressor" -> IF ok THEN "none" ELSE "errCompress"
      [] pc = "closeCrypter" -> IF ok THEN "none" ELSE "errEncrypt"
      [] pc = "closePipe" -> "EOF"

\* What the producer closes the pipe with at pc, given how the call there ended
cePipeClose(pc, ok) ==
    CASE pc = "copy" -> IF ok THEN "none" ELSE "errCopy"
      [] pc = "closeCompressor" -> IF ok THEN "none" ELSE "errCompress"
      [] pc = "closeCrypter" -> IF ok THEN "none" ELSE "errEncrypt"
      [] pc = "closePipe" -> "EOF"

ceNextPc_encryptorFirst(pc, ok, crypter) ==
    CASE pc = "copy" -> IF crypter THEN "closeCrypter" ELSE "closeCompressor"
      [] pc = "closeCrypter" -> IF ok THEN "closeCompressor" ELSE "done"
      [] pc = "closeCompressor" -> IF ok THEN "closePipe" ELSE "done"
      [] pc = "closePipe" -> "done"

\* Control flow of the producer task: a failed copy does not return, a failed
\* close does
ceNextPc(pc, ok, crypter) ==
    CASE pc = "copy" -> "closeCompressor"
      [] pc = "closeCompressor" ->
            IF ~ok THEN "done" ELSE IF crypter THEN "closeCrypter" ELSE "closePipe"
      [] pc = "closeCrypter" -> IF ok THEN "closePipe" ELSE "done"
      [] pc = "closePipe" -> "done"

\* The call CompressAndEncrypt(source, compressor, crypter): pipe, writers, go
CompressAndEncrypt(crypter, n) ==
    /\ cePc = "idle"
    /\ cePc' = "copy"
    /\ hasCrypter' = crypter
    /\ srcLeft' = n
    /\ UNCHANGED <<notPipe, pipeBuf, pipe, consumed, consumerSaw, closeLog, ceFailed>>

\* FastCopy moves one chunk: the pipe write blocks until the consumer takes it
CopyChunk ==
    /\ cePc = "copy"
    /\ srcLeft > 0
    /\ pipeBuf = 0
    /\ srcLeft' = srcLeft - 1
    /\ pipeBuf' = 1
    /\ UNCHANGED <<notPipe, cePc, hasCrypter, pipe, consumed, consumerSaw, closeLog,
                   ceFailed>>

\* FastCopy returns: nil at the end of the source, or an error of the source
\* or of a writer
CopyReturn(ok) ==
    /\ cePc = "copy"
    /\ pipeBuf = 0
    /\ ok => srcLeft = 0
    /\ pipe' = CloseWithError(pipe, cePipeClose(cePc, ok))
    /\ closeLog' = IF ok THEN closeLog ELSE Append(closeLog, "pipeWithError")
    /\ ceFailed' = IF ok THEN ceFailed ELSE ceFailed \cup {"copy"}
    /\ cePc' = ceNextPc(cePc, ok, hasCrypter)
    /\ UNCHANGED <<notPipe, hasCrypter, srcLeft, pipeBuf, consumed, consumerSaw>>

\* compressedWriter.Close()
CloseCompressor(ok) ==
    /\ cePc = "closeCompressor"
    /\ pipe' = CloseWithError(pipe, cePipeClose(cePc, ok))
    /\ closeLog' = IF ok THEN Append(closeLog, "compressor")
                   ELSE closeLog \o <<"compressorFailed", "pipeWithError">>
    /\ ceFailed' = IF ok THEN ceFailed ELSE ceFailed \cup {"compressor"}
    /\ cePc' = ceNextPc(cePc, ok, hasCrypter)
    /\ UNCHANGED <<notPipe, hasCrypter, srcLeft, pipeBuf, consumed, consumerSaw>>

\* writeCloser.Close() of the encryptor
CloseCrypter(ok) ==
    /\ cePc = "closeCrypter"
    /\ pipe' = CloseWithError(pipe, cePipeClose(cePc, ok))
    /\ closeLog' = IF ok THEN Append(closeLog, "crypter")
                   ELSE closeLog \o <<"crypterFailed", "pipeWithError">>
    /\ ceFailed' = IF ok THEN ceFailed ELSE ceFailed \cup {"crypter"}
    /\ cePc' = ceNextPc(cePc, ok, hasCrypter)
    /\ UNCHANGED <<notPipe, hasCrypter, srcLeft, pipeBuf, consumed, consumerSaw>>

\* dstWriter.Close()
ClosePipe ==
    /\ cePc = "closePipe"
    /\ pipe' = CloseWithError(pipe, cePipeClose(cePc, TRUE))
    /\ closeLog' = Append(closeLog, "pipe")
    /\ cePc' = ceNextPc(cePc, TRUE, hasCrypter)
    /\ UNCHANGED <<notPipe, hasCrypter, srcLeft, pipeBuf, consumed, consumerSaw, ceFailed>>

\* The consumer reads the pipe: pending data, or how the write end was closed
ConsumerRead ==
    /\ cePc # "idle"
    /\ consumerSaw = "none"
    /\ pipeBuf > 0 \/ pipe # "open"
    /\ IF pipeBuf > 0
       THEN /\ pipeBuf' = 0
            /\ consumed' = consumed + 1
            /\ UNCHANGED consumerSaw
       ELSE /\ consumerSaw' = pipe
            /\ UNCHANGED <<pipeBuf, consumed>>
    /\ UNCHANGED <<notPipe, cePc, hasCrypter, srcLeft, pipe, closeLog, ceFailed>>

InitPipe == UploadIdle /\ PipeIdle /\ PageIdle /\ RestIdle

NextPipe ==
    \/ \E crypter \in BOOLEAN, n \in 0..MaxChunks : CompressAndEncrypt(crypter, n)
    \/ CopyChunk
    \/ \E ok \in BOOLEAN : CopyReturn(ok)
    \/ \E ok \in BOOLEAN : CloseCompressor(ok)
    \/ \E ok \in BOOLEAN : CloseCrypter(ok)
    \/ ClosePipe
    \/ ConsumerRead

SpecPipe == InitPipe /\ [][NextPipe]_vars

(***************************************************************************)
(* Claims about CompressAndEncrypt (checked under SpecPipe)                *)
(***************************************************************************)
Before(log, a, i) == \E j \in 1..(i - 1) : log[j] = a

\* C7: a failure of the copy, of the compressor's close or of the encryptor's
\* close closes the pipe with an error, which is what the consumer's read
\* returns; the consumer never sees a clean end of stream of a production
\* that failed, also when the copy failed and the later closes succeeded.
C7_FailurePropagates ==
    /\ ceFailed # {} => pipe \in PipeErrors
    /\ consumerSaw # "none" => consumerSaw = pipe
    /\ consumerSaw = "EOF" => ceFailed = {}
    /\ ("copy" \in ceFailed) => pipe = "errCopy"

\* C7 witness: the copy failed, both closes succeeded, the producer ran to its
\* end, and the consumer's read returned the copy's error.
C7_Witness ==
    /\ ceFailed = {"copy"}
    /\ hasCrypter
    /\ cePc = "done"
    /\ closeLog = <<"pipeWithError", "compressor", "crypter", "pipe">>
    /\ consumerSaw = "errCopy"

\* C8: the successful closes are ordered compressor, encryptor (when a
\* crypter is configured), pipe: the encryptor is closed only after the
\* compressor, and the pipe is closed without error only after both.
C8_CloseOrder ==
    /\ \A i \in 1..Len(closeLog) :
          /\ closeLog[i] \in {"crypter", "crypterFailed"} =>
                Before(closeLog, "compressor", i)
          /\ closeLog[i] = "pipe" =>
                /\ Before(closeLog, "compressor", i)
                /\ hasCrypter => Before(closeLog, "crypter", i)
    /\ pipe = "EOF" =>
          /\ \E i \in 1..Len(closeLog) : closeLog[i] = "compressor"
          /\ hasCrypter => \E i \in 1..Len(closeLog) : closeLog[i] = "crypter"

\* C8 witness: a run with a crypter that closed compressor, encryptor and
\* pipe, and the consumer read a clean end of stream.
C8_Witness ==
    /\ hasCrypter
    /\ closeLog = <<"compressor", "crypter", "pipe">>
    /\ pipe = "EOF"
    /\ consumerSaw = "EOF"
    /\ consumed = 2

(***************************************************************************)
(* The increment decoder (pagefile_new.go).  A file is the sequence of its *)
(* pages; a page is a number: ZeroPage is the all-zero page, a negative    *)
(* number is a page with an all-zero header and a non-zero body, a         *)
(* positive number is a page with a non-zero header; different numbers are *)
(* different contents.                                                     *)
(***************************************************************************)
MaxPages == 2          \* pages of a target file, and the block numbers 0..MaxPages
MaxDiff == 2           \* entries of a diffMap

\* The PostgreSQL page size
DatabasePageSize == 8192

\* emptyPage := make([]byte, DatabasePageSize)
ZeroPage == 0

\* The pageLSN in the first 8 bytes of a page: 0 for an all-zero header
pageLSN(p) == IF p <= 0 THEN 0 ELSE (p \div 10) + 1

\* Page bodies of an increment stream holding n bodies: the k-th is page 10 + k
Bodies(n) == [k \in 1..n |-> 10 + k]

\* All sequences over S of length at most n
RECURSIVE SeqsUpTo(_, _)
SeqsUpTo(S, n) ==
    IF n = 0 THEN {<<>>}
    ELSE LET shorter == SeqsUpTo(S, n - 1)
         IN shorter \cup {Append(q, x) : q \in {r \in shorter : Len(r) = n - 1}, x \in S}

\* target.Stat().Size()
Size(file) == Len(file) * DatabasePageSize

\* getPageCount: targetFileInfo.Size() / DatabasePageSize
getPageCount(file) == Size(file) \div DatabasePageSize

\* target.WriteAt(page, offset) of a local file: a write past the end grows the
\* file, the gap reads as zeros
WriteAt(file, page, offset) ==
    LET blockNo == offset \div DatabasePageSize
    IN [i \in 1..(IF blockNo + 1 > Len(file) THEN blockNo + 1 ELSE Len(file)) |->
           IF i = blockNo + 1 THEN page
           ELSE IF i <= Len(file) THEN file[i] ELSE ZeroPage]

\* checkIfMissingPage: the page header in the local file is all zeros
\* (ReadAt fails past the end of the file)
checkIfMissingPage(file, blockNo) ==
    IF blockNo >= Len(file) THEN [missing |-> FALSE, err |-> "EOF"]
    ELSE [missing |-> pageLSN(file[blockNo + 1]) = 0, err |-> "nil"]

isTarReaderEmpty_always(content) == TRUE

isTarReaderEmpty_never(content) == FALSE

\* isTarReaderEmpty: a one-byte read returns nothing
isTarReaderEmpty(content) == content = <<>>

writePage_skipKeepsBody(file, blockNo, content, overwrite) ==
    IF content = <<>>
    THEN [file |-> file, content |-> content, err |-> "EOF"]
    ELSE LET page == Head(content)
             rest == Tail(content)
             chk == checkIfMissingPage(file, blockNo)
         IN IF ~overwrite /\ chk.err # "nil"
            THEN [file |-> file, content |-> rest, err |-> chk.err]
            ELSE IF ~overwrite /\ ~chk.missing
            THEN [file |-> file, content |-> content, err |-> "nil"]
            ELSE [file |-> WriteAt(file, page, blockNo * DatabasePageSize),
                  content |-> rest, err |-> "nil"]

writePage_checkAlways(file, blockNo, content, overwrite) ==
    IF content = <<>>
    THEN [file |-> file, content |-> content, err |-> "EOF"]
    ELSE LET page == Head(content)
             rest == Tail(content)
             chk == checkIfMissingPage(file, blockNo)
         IN IF chk.err # "nil"
            THEN [file |-> file, content |-> rest, err |-> chk.err]
            ELSE IF ~chk.missing
            THEN [file |-> file, content |-> rest, err |-> "nil"]
            ELSE [file |-> WriteAt(file, page, blockNo * DatabasePageSize),
                  content |-> rest, err |-> "nil"]

\* writePage: read one page body from content and write it at blockNo, unless
\* overwrite is off and the local page is not missing
writePage(file, blockNo, content, overwrite) ==
    IF content = <<>>
    THEN [file |-> file, content |-> content, err |-> "EOF"]
    ELSE LET page == Head(content)
             rest == Tail(content)
             chk == checkIfMissingPage(file, blockNo)
         IN IF ~overwrite /\ chk.err # "nil"
            THEN [file |-> file, content |-> rest, err |-> chk.err]
            ELSE IF ~overwrite /\ ~chk.missing
            THEN [file |-> file, content |-> rest, err |-> "nil"]
            ELSE [file |-> WriteAt(file, page, blockNo * DatabasePageSize),
                  content |-> rest, err |-> "nil"]

\* getIncrementHeaderFields: ReadIncrementFileHeader rejects a stream whose
\* magic or version is not known; fileSize, diffBlockCount and the diffMap of
\* diffBlockCount entries are read as they are
getIncrementHeaderFields(incr) ==
    IF ~incr.magicOk
    THEN [fileSize |-> 0, diffBlockCount |-> 0, diffMap |-> <<>>,
          err |-> "InvalidIncrementFileHeader"]
    ELSE [fileSize |-> incr.fileSize, diffBlockCount |-> Len(incr.diffMap),
          diffMap |-> incr.diffMap, err |-> "nil"]

\* set represents all block numbers with non-empty pages
deltaBlockNumbers(diffMap) == {diffMap[i] : i \in 1..Len(diffMap)}

emptyPageWrite_skipped(file, i) == file

\* target.WriteAt(emptyPage, i*DatabasePageSize)
emptyPageWrite(file, i) == WriteAt(file, ZeroPage, i * DatabasePageSize)

\* The loop of CreateFileFromIncrement from page i on
RECURSIVE createLoop(_, _, _, _, _)
createLoop(file, content, delta, i, pageCount) ==
    IF i >= pageCount
    THEN [file |-> file, content |-> content, err |-> "nil"]
    ELSE IF i \in delta
    THEN LET w == writePage(file, i, content, TRUE)
         IN IF w.err # "nil" THEN w
            ELSE createLoop(w.file, w.content, delta, i + 1, pageCount)
    ELSE createLoop(emptyPageWrite(file, i), content, delta, i + 1, pageCount)

\* CreateFileFromIncrement(increment, target)
CreateFileFromIncrement(incr, file) ==
    LET h == getIncrementHeaderFields(incr)
    IN IF h.err # "nil"
       THEN [file |-> file, content |-> incr.bodies, err |-> h.err]
       ELSE createLoop(file, incr.bodies, deltaBlockNumbers(h.diffMap), 0,
                       h.fileSize \div DatabasePageSize)

discardPage_never(blockNo, targetPageCount) == FALSE

\* if blockNo >= targetPageCount: the page is read and discarded
discardPage(blockNo, targetPageCount) == blockNo >= targetPageCount

\* The loop of WritePagesFromIncrement from diffMap entry i on
RECURSIVE writePagesLoop(_, _, _, _, _, _)
writePagesLoop(file, content, diffMap, i, targetPageCount, overwrite) ==
    IF i > Len(diffMap)
    THEN [file |-> file, content |-> content,
          err |-> IF isTarReaderEmpty(content) THEN "nil" ELSE "UnexpectedTarData"]
    ELSE IF discardPage(diffMap[i], targetPageCount)
    THEN IF content = <<>>
         THEN [file |-> file, content |-> content, err |-> "EOF"]
         ELSE writePagesLoop(file, Tail(content), diffMap, i + 1, targetPageCount,
                             overwrite)
    ELSE LET w == writePage(file, diffMap[i], content, overwrite)
         IN IF w.err # "nil" THEN w
            ELSE writePagesLoop(w.file, w.content, diffMap, i + 1, targetPageCount,
                                overwrite)

\* WritePagesFromIncrement(increment, target, overwriteExisting)
WritePagesFromIncrement(incr, file, overwriteExisting) ==
    LET h == getIncrementHeaderFields(incr)
    IN IF h.err # "nil"
       THEN [file |-> file, content |-> incr.bodies, err |-> h.err]
       ELSE writePagesLoop(file, incr.bodies, h.diffMap, 1, getPageCount(file),
                           overwriteExisting)

\* The increments a decoder is handed: a header with a known magic and
\* version or not, an aligned fileSize, a diffMap of uint32 block numbers, and
\* some page bodies
Increments ==
    [magicOk : BOOLEAN,
     fileSize : {n * DatabasePageSize : n \in 0..MaxPages},
     diffMap : SeqsUpTo(0..MaxPages, MaxDiff),
     bodies : {Bodies(n) : n \in 0..(MaxDiff + 1)}]

\* The local files a decoder is handed
Targets == SeqsUpTo({ZeroPage, 1}, MaxPages)

InitPage ==
    /\ UploadIdle
    /\ PipeIdle
    /\ RestIdle
    /\ increment \in Increments
    /\ target \in Targets
    /\ target0 = target
    /\ pageOp = "none"
    /\ pageErr = "none"

\* A new local file is created from the increment
CallCreateFileFromIncrement ==
    /\ pageOp = "none"
    /\ target = <<>>
    /\ LET r == CreateFileFromIncrement(increment, target)
       IN /\ target' = r.file
          /\ pageErr' = r.err
    /\ pageOp' = "CreateFileFromIncrement"
    /\ UNCHANGED <<notPage, increment, target0>>

\* An existing local file is patched from the increment
CallWritePagesFromIncrement(overwriteExisting) ==
    /\ pageOp = "none"
    /\ LET r == WritePagesFromIncrement(increment, target, overwriteExisting)
       IN /\ target' = r.file
          /\ pageErr' = r.err
    /\ pageOp' = IF overwriteExisting THEN "WritePagesFromIncrement(overwrite)"
                 ELSE "WritePagesFromIncrement"
    /\ UNCHANGED <<notPage, increment, target0>>

NextPage ==
    \/ CallCreateFileFromIncrement
    \/ \E overwriteExisting \in BOOLEAN : CallWritePagesFromIncrement(overwriteExisting)

SpecPage == InitPage /\ [][NextPage]_vars

(***************************************************************************)
(* Claims about the increment decoder (checked under SpecPage)             *)
(***************************************************************************)
\* The block numbers below n that a diffMap lists
Listed(diffMap, n) == {b \in 0..(n - 1) : \E j \in 1..Len(diffMap) : diffMap[j] = b}

\* C9: CreateFileFromIncrement leaves a target of fileSize bytes in which, for
\* every i below fileSize/PAGE, page i is the next page body of the increment
\* (bodies taken in ascending block order) if i is in diffMap, and an all-zero
\* page otherwise.
C9_CreateFromIncrement ==
    (pageOp = "CreateFileFromIncrement" /\ pageErr = "nil") =>
        LET n == increment.fileSize \div DatabasePageSize
            listed == Listed(increment.diffMap, n)
        IN /\ Len(target) * DatabasePageSize = increment.fileSize
           /\ \A i \in 0..(n - 1) :
                 IF i \in listed
                 THEN target[i + 1] =
                         increment.bodies[Cardinality({b \in listed : b < i}) + 1]
                 ELSE target[i + 1] = ZeroPage

\* C9 witness: a file of two pages was created, page 1 from the increment's
\* only body and page 0 as zeros.
C9_Witness ==
    /\ pageOp = "CreateFileFromIncrement"
    /\ pageErr = "nil"
    /\ increment.diffMap = <<1>>
    /\ target = <<ZeroPage, 11>>

\* C10: WritePagesFromIncrement leaves every page whose block number is not in
\* diffMap as it was, and does not change the size of the target.
C10_PatchFrame ==
    (pageOp \in {"WritePagesFromIncrement", "WritePagesFromIncrement(overwrite)"}) =>
        /\ Len(target) = Len(target0)
        /\ \A i \in 0..(Len(target0) - 1) :
              (i \notin deltaBlockNumbers(increment.diffMap)) => target[i + 1] = target0[i + 1]

\* C10 witness: a patch wrote page 0, discarded a page beyond the end of the
\* target, and left page 1 alone.
C10_Witness ==
    /\ pageOp = "WritePagesFromIncrement(overwrite)"
    /\ pageErr = "nil"
    /\ increment.diffMap = <<0, 2>>
    /\ target0 = <<1, 1>>
    /\ target = <<11, 1>>

(***************************************************************************)
(* RestoreMissingPages (pagefile_new.go) on any target file and any base   *)
(* stream: SpecMissing.                                                    *)
(***************************************************************************)
\* The pages a file or a stream is made of
PageValues == {ZeroPage, -1, 1, 11, 21}

restoreOverwrite_true == TRUE

\* the overwrite argument of writePage(target, i, base, false)
restoreOverwrite == FALSE

\* The loop of RestoreMissingPages from block i on; io.EOF of the base stream
\* ends the loop
RECURSIVE restoreLoop(_, _, _, _)
restoreLoop(file, content, i, targetPageCount) ==
    IF i >= targetPageCount
    THEN [file |-> file, content |-> content, err |-> "nil"]
    ELSE LET w == writePage(file, i, content, restoreOverwrite)
         IN IF w.err = "EOF" THEN [file |-> w.file, content |-> w.content, err |-> "nil"]
            ELSE IF w.err # "nil" THEN w
            ELSE restoreLoop(w.file, w.content, i + 1, targetPageCount)

\* RestoreMissingPages(base, target); pages left in the base reader are only
\* logged
RestoreMissingPages(stream, file) == restoreLoop(file, stream, 0, getPageCount(file))

\* The files of the data directory, of a base backup, of a restore directory
Files == SeqsUpTo(PageValues, MaxPages)

\* The base streams: a base file may be longer than the target
BaseStreams == SeqsUpTo(PageValues, MaxPages + 1)

InitMissing ==
    /\ UploadIdle
    /\ PipeIdle
    /\ CryptIdle
    /\ FetchIdle
    /\ PartsIdle
    /\ MetaIdle
    /\ SizeIdle
    /\ HeaderIdle
    /\ PushIdle
    /\ FileTarIdle
    /\ ExistsIdle
    /\ LzoIdle
    /\ QueryIdle
    /\ WalIdle
    /\ CopyIdle
    /\ ComposeIdle
    /\ increment = NoIncrement
    /\ target \in Files
    /\ target0 = target
    /\ pageOp = "none"
    /\ pageErr = "none"
    /\ base \in BaseStreams
    /\ baseLeft = Len(base)
    /\ live = <<>>
    /\ baseLsn = 0

\* The missing pages of the target are restored from the base stream
CallRestoreMissingPages ==
    /\ pageOp = "none"
    /\ LET r == RestoreMissingPages(base, target)
       IN /\ target' = r.file
          /\ pageErr' = r.err
          /\ baseLeft' = Len(r.content)
    /\ pageOp' = "RestoreMissingPages"
    /\ UNCHANGED <<notDecoder, increment, target0, base, live, baseLsn>>

NextMissing ==
    \/ CallRestoreMissingPages

SpecMissing == InitMissing /\ [][NextMissing]_vars

\* The smaller of two numbers
Min(a, b) == IF a < b THEN a ELSE b

BaseLsns == {1, 2}

\* Page classifier: a page is included in the increment iff pageLSN > base_lsn
included(page, lsn) == pageLSN(page) > lsn

\* The increment of a file against a base LSN: the included blocks in
\* ascending order, then their page bodies in the same order
MakeIncrement(file, lsn) ==
    LET blocks == SelectSeq([i \in 1..Len(file) |-> i - 1],
                            LAMBDA b : included(file[b + 1], lsn))
    IN [magicOk |-> TRUE,
        fileSize |-> Size(file),
        diffMap |-> blocks,
        bodies |-> [k \in 1..Len(blocks) |-> file[blocks[k] + 1]]]

\* What the file can have become since the base backup: a page whose pageLSN
\* is not above the base LSN has not been written since, and is the base page
LiveFiles(baseFile, lsn) ==
    {f \in Files : \A i \in 1..Min(Len(f), Len(baseFile)) :
                      ~included(f[i], lsn) => f[i] = baseFile[i]}

InitRestore ==
    /\ UploadIdle
    /\ PipeIdle
    /\ CryptIdle
    /\ FetchIdle
    /\ PartsIdle
    /\ MetaIdle
    /\ SizeIdle
    /\ HeaderIdle
    /\ PushIdle
    /\ FileTarIdle
    /\ ExistsIdle
    /\ LzoIdle
    /\ QueryIdle
    /\ WalIdle
    /\ CopyIdle
    /\ ComposeIdle
    /\ base \in Files
    /\ baseLeft = Len(base)
    /\ baseLsn \in BaseLsns
    /\ live \in LiveFiles(base, baseLsn)
    /\ increment = MakeIncrement(live, baseLsn)
    /\ target = base
    /\ target0 = target
    /\ pageOp = "none"
    /\ pageErr = "none"

\* The file on which RestoreMissingPages has returned nil is patched from the
\* increment
CallPatchAfterRestore(overwriteExisting) ==
    /\ pageOp = "RestoreMissingPages"
    /\ pageErr = "nil"
    /\ LET r == WritePagesFromIncrement(increment, target, overwriteExisting)
       IN /\ target' = r.file
          /\ pageErr' = r.err
    /\ pageOp' = IF overwriteExisting
                 THEN "RestoreMissingPages+WritePagesFromIncrement(overwrite)"
                 ELSE "RestoreMissingPages+WritePagesFromIncrement"
    /\ UNCHANGED <<notPage, increment, target0>>

\* Newest first, in a fresh restore directory: the file is created from the
\* increment, then its missing pages are restored from the base backup
CallCreateThenRestoreMissing ==
    /\ pageOp = "none"
    /\ LET c == CreateFileFromIncrement(increment, <<>>)
           r == RestoreMissingPages(base, c.file)
       IN /\ target' = IF c.err = "nil" THEN r.file ELSE c.file
          /\ pageErr' = IF c.err = "nil" THEN r.err ELSE c.err
          /\ baseLeft' = IF c.err = "nil" THEN Len(r.content) ELSE baseLeft
    /\ pageOp' = "CreateFileFromIncrement+RestoreMissingPages"
    /\ UNCHANGED <<notDecoder, increment, target0, base, live, baseLsn>>

NextRestore ==
    \/ CallRestoreMissingPages
    \/ \E overwriteExisting \in BOOLEAN : CallWritePagesFromIncrement(overwriteExisting)
    \/ \E overwriteExisting \in BOOLEAN : CallPatchAfterRestore(overwriteExisting)
    \/ CallCreateThenRestoreMissing

SpecRestore == InitRestore /\ [][NextRestore]_vars

\* C12: for a base file and a live file of the same size, patching the
\* increment of the live pages with pageLSN above the base LSN onto a copy of
\* the base file with overwriteExisting = true returns nil and leaves the live
\* file.
C12_PatchYieldsLive ==
    (pageOp = "WritePagesFromIncrement(overwrite)" /\ Len(live) = Len(base)) =>
        /\ pageErr = "nil"
        /\ target = live

\* C12 witness: page 1 was rewritten after the base backup, page 0 was not; the
\* increment holds block 1 only and the patched base copy is the live file.
C12_Witness ==
    /\ pageOp = "WritePagesFromIncrement(overwrite)"
    /\ baseLsn = 1
    /\ base = <<1, 1>>
    /\ live = <<1, 21>>
    /\ increment.diffMap = <<1>>
    /\ target = live

\* C34: for a base file and an increment taken against it of a file of the
\* same size, CreateFileFromIncrement on an empty target followed by
\* RestoreMissingPages(base) returns nil and leaves the file that
\* WritePagesFromIncrement(increment, overwriteExisting = true) leaves on a
\* copy of the whole base file.
C34_NewestFirstSameAsOldestFirst ==
    (pageOp = "CreateFileFromIncrement+RestoreMissingPages" /\ Len(live) = Len(base)) =>
        /\ pageErr = "nil"
        /\ WritePagesFromIncrement(increment, base, TRUE).err = "nil"
        /\ target = WritePagesFromIncrement(increment, base, TRUE).file

\* C34 witness: block 1 changed after the base backup and block 0, a page with
\* an all-zero header in the base file, did not; both orders give the live file.
C34_Witness ==
    /\ pageOp = "CreateFileFromIncrement+RestoreMissingPages"
    /\ baseLsn = 1
    /\ base = <<-1, 1>>
    /\ live = <<-1, 21>>
    /\ increment.diffMap = <<1>>
    /\ target = <<-1, 21>>

\* C13 as stated: RestoreMissingPages and then WritePagesFromIncrement
\* (overwriteExisting = true) on the base copy leave the live file, whatever
\* the base pages, holes and changed pages.
C13_RestoreThenPatch ==
    (pageOp = "RestoreMissingPages+WritePagesFromIncrement(overwrite)") =>
        target = live

\* C13 amended: RestoreMissingPages and then WritePagesFromIncrement with
\* overwriteExisting = true on the base copy return nil and leave the live
\* file when the live file has as many pages as the base file.
C13_RestoreThenPatchSameSize ==
    (pageOp = "RestoreMissingPages+WritePagesFromIncrement(overwrite)"
        /\ Len(live) = Len(base)) =>
        /\ pageErr = "nil"
        /\ target = live

\* C13 witness: the base file has a hole at block 0 that was written after
\* the base backup; restore and patch give the live file.
C13_Witness ==
    /\ pageOp = "RestoreMissingPages+WritePagesFromIncrement(overwrite)"
    /\ baseLsn = 1
    /\ base = <<ZeroPage, 1>>
    /\ live = <<11, 1>>
    /\ target = live

(***************************************************************************)
(* Claims about malformed increments (checked under SpecPage)              *)
(***************************************************************************)
\* The block numbers of a diffMap are strictly ascending
StrictlyAscending(diffMap) ==
    \A j \in 1..(Len(diffMap) - 1) : diffMap[j] < diffMap[j + 1]

\* C14 as stated: CreateFileFromIncrement and WritePagesFromIncrement return
\* an error and leave the target as it was when the diffMap of the increment
\* is not strictly ascending, when it holds fewer page bodies than diffMap
\* entries, or when its magic or version is not known.
C14_MalformedRejected ==
    (pageOp # "none"
        /\ \/ ~StrictlyAscending(increment.diffMap)
           \/ Len(increment.bodies) < Len(increment.diffMap)
           \/ ~increment.magicOk) =>
        /\ pageErr # "nil"
        /\ target = target0

\* The diffMap entries that name block b
EntriesOf(diffMap, b) == {j \in 1..Len(diffMap) : diffMap[j] = b}

\* The greatest and the smallest element of a non-empty set of numbers
Greatest(S) == CHOOSE x \in S : \A y \in S : y <= x
Smallest(S) == CHOOSE x \in S : \A y \in S : x <= y

\* C32: when WritePagesFromIncrement returns nil, the j-th page body of the
\* increment was consumed by the j-th diffMap entry, whether that page was
\* written, discarded or skipped: the increment holds as many bodies as
\* entries, every page that was written holds the body of an entry that names
\* its block (the last one with overwriteExisting, else the first one, onto a
\* missing page only), and the target has not grown.
C32_OneBodyPerEntry ==
    (pageOp \in {"WritePagesFromIncrement", "WritePagesFromIncrement(overwrite)"}
        /\ pageErr = "nil") =>
        /\ Len(increment.bodies) = Len(increment.diffMap)
        /\ Len(target) = Len(target0)
        /\ \A b \in 0..(Len(target0) - 1) :
              LET js == EntriesOf(increment.diffMap, b)
              IN target[b + 1] =
                    IF js = {} THEN target0[b + 1]
                    ELSE IF pageOp = "WritePagesFromIncrement(overwrite)"
                    THEN increment.bodies[Greatest(js)]
                    ELSE IF pageLSN(target0[b + 1]) = 0
                    THEN increment.bodies[Smallest(js)]
                    ELSE target0[b + 1]

\* C32 witness: without overwriteExisting the page of block 0 was skipped and
\* its body consumed, and block 1, a missing page, got the second body.
C32_Witness ==
    /\ pageOp = "WritePagesFromIncrement"
    /\ pageErr = "nil"
    /\ increment.diffMap = <<0, 1>>
    /\ target0 = <<1, ZeroPage>>
    /\ target = <<1, 12>>

\* C33: on an increment with a valid header WritePagesFromIncrement returns
\* the unexpected-data error when the stream holds more page bodies than
\* diffMap entries, an error when it holds fewer, and nil exactly when it
\* holds as many.
C33_ExhaustedExactly ==
    (pageOp \in {"WritePagesFromIncrement", "WritePagesFromIncrement(overwrite)"}
        /\ increment.magicOk) =>
        /\ Len(increment.bodies) > Len(increment.diffMap) => pageErr = "UnexpectedTarData"
        /\ Len(increment.bodies) < Len(increment.diffMap) => pageErr \notin {"nil", "none"}
        /\ Len(increment.bodies) = Len(increment.diffMap) <=> pageErr = "nil"

\* C33 witness: one entry, two bodies: the second body is unexpected data.
C33_Witness ==
    /\ pageOp = "WritePagesFromIncrement(overwrite)"
    /\ increment.magicOk
    /\ increment.diffMap = <<0>>
    /\ Len(increment.bodies) = 2
    /\ pageErr = "UnexpectedTarData"

(***************************************************************************)
(* wal-push (wal_push_handler.go): SpecWal.  wal-push operations run one   *)
(* after another against one archive folder; each runs uploadWALFile.      *)
(***************************************************************************)
MaxPushes == 3         \* wal-push operations of a run

\* Names and contents of WAL segment files
WalNames == {"seg1", "seg2"}
WalContents == {1, 2}

\* What UploadWalFile stores and what DownloadAndDecompressStorageFile gives
\* back of it
Compress(bytes) == [ext |-> "lz4", data |-> bytes]
Decompress(object) == object.data

\* checkWALOverwrite: (overwriteAttempt, err) for the archived object of the
\* name, or none; download is how DownloadAndDecompressStorageFile went for an
\* object that exists, readOk how the two ReadAll/ReadFile calls went
checkWALOverwrite(archive, name, localBytes, download, readOk) ==
    IF name \notin DOMAIN archive
    THEN [overwriteAttempt |-> FALSE, err |-> "nil"]
    ELSE IF download # "ok"
    THEN [overwriteAttempt |-> FALSE, err |-> download]
    ELSE IF ~readOk
    THEN [overwriteAttempt |-> FALSE, err |-> "ioError"]
    ELSE IF Decompress(archive[name]) # localBytes
    THEN [overwriteAttempt |-> TRUE, err |-> "CantOverwriteWalFileError"]
    ELSE [overwriteAttempt |-> TRUE, err |-> "nil"]

afterCheck_onlyErrors(r) ==
    IF r.err # "nil" THEN [pc |-> "returned", err |-> r.err]
    ELSE [pc |-> "upload", err |-> "none"]

\* uploadWALFile after checkWALOverwrite: an overwrite attempt returns err (nil
\* for equal content), another error returns wrapped, otherwise the upload
\* goes on
afterCheck(r) ==
    IF r.overwriteAttempt THEN [pc |-> "returned", err |-> r.err]
    ELSE IF r.err # "nil" THEN [pc |-> "returned", err |-> "CouldntCheck"]
    ELSE [pc |-> "upload", err |-> "none"]

\* The state of the archive entry of a name
AtCall(archive, name) ==
    IF name \in DOMAIN archive THEN [exists |-> TRUE, data |-> Decompress(archive[name])]
    ELSE [exists |-> FALSE, data |-> 0]

InitWal ==
    /\ UploadIdle
    /\ PipeIdle
    /\ CryptIdle
    /\ FetchIdle
    /\ PartsIdle
    /\ MetaIdle
    /\ SizeIdle
    /\ HeaderIdle
    /\ PushIdle
    /\ FileTarIdle
    /\ ExistsIdle
    /\ LzoIdle
    /\ QueryIdle
    /\ PageIdle
    /\ RestoreIdle
    /\ CopyIdle
    /\ ComposeIdle
    /\ walArchive = <<>>
    /\ walMeta = {}
    /\ walPc = "idle"
    /\ walPush = [name |-> "", bytes |-> 0]
    /\ walAtCall = [exists |-> FALSE, data |-> 0]
    /\ walCheckIo = "none"
    /\ walErr = "none"
    /\ walPuts = 0
    /\ walPushes = 0
    /\ preventWalOverwrite \in BOOLEAN
    /\ uploadWalMetadata \in BOOLEAN

\* uploadWALFile(uploader, walFilePath, preventWalOverwrite) is called
WalPushCall(name, bytes) ==
    /\ walPc \in {"idle", "returned"}
    /\ walPushes < MaxPushes
    /\ walPushes' = walPushes + 1
    /\ walPush' = [name |-> name, bytes |-> bytes]
    /\ walAtCall' = AtCall(walArchive, name)
    /\ walPc' = IF preventWalOverwrite THEN "check" ELSE "upload"
    /\ walCheckIo' = "none"
    /\ walErr' = "none"
    /\ walPuts' = 0
    /\ UNCHANGED <<notWal, walArchive, walMeta, preventWalOverwrite, uploadWalMetadata>>

\* if preventWalOverwrite: checkWALOverwrite and what uploadWALFile does with
\* its result
CheckWALOverwrite(download, readOk) ==
    /\ walPc = "check"
    /\ LET r == checkWALOverwrite(walArchive, walPush.name, walPush.bytes, download, readOk)
           a == afterCheck(r)
       IN /\ walPc' = a.pc
          /\ walErr' = a.err
    /\ walCheckIo' = IF walPush.name \in DOMAIN walArchive /\ (download # "ok" \/ ~readOk)
                     THEN "ioError" ELSE "ok"
    /\ UNCHANGED <<notWal, walArchive, walMeta, walPush, walAtCall, walPuts, walPushes,
                   preventWalOverwrite, uploadWalMetadata>>

\* os.Open fails: uploadWALFile returns the error
OpenFails ==
    /\ walPc = "upload"
    /\ walPc' = "returned"
    /\ walErr' = "couldNotOpen"
    /\ UNCHANGED <<notWal, walArchive, walMeta, walPush, walAtCall, walCheckIo, walPuts,
                   walPushes, preventWalOverwrite, uploadWalMetadata>>

\* uploader.UploadWalFile(walFile): the segment is compressed and put under its
\* name, replacing what the folder holds under that name
UploadWalFile(ok) ==
    /\ walPc = "upload"
    /\ walPuts' = walPuts + 1
    /\ walArchive' = IF ok
                     THEN (walPush.name :> Compress(walPush.bytes)) @@ walArchive
                     ELSE walArchive
    /\ walPc' = IF ok /\ uploadWalMetadata THEN "metadata" ELSE "returned"
    /\ walErr' = IF ok THEN "nil" ELSE "couldNotUpload"
    /\ UNCHANGED <<notWal, walMeta, walPush, walAtCall, walCheckIo, walPushes,
                   preventWalOverwrite, uploadWalMetadata>>

\* uploadWALMetadataFile: the metadata object <name>.json is put
UploadWALMetadataFile(ok) ==
    /\ walPc = "metadata"
    /\ walMeta' = IF ok THEN walMeta \cup {walPush.name} ELSE walMeta
    /\ walErr' = IF ok THEN "nil" ELSE "metadataUploadFailed"
    /\ walPc' = "returned"
    /\ UNCHANGED <<notWal, walArchive, walPush, walAtCall, walCheckIo, walPuts, walPushes,
                   preventWalOverwrite, uploadWalMetadata>>

NextWal ==
    \/ \E name \in WalNames, bytes \in WalContents : WalPushCall(name, bytes)
    \/ \E download \in {"ok", "ioError"}, readOk \in BOOLEAN :
          CheckWALOverwrite(download, readOk)
    \/ OpenFails
    \/ \E ok \in BOOLEAN : UploadWalFile(ok)
    \/ \E ok \in BOOLEAN : UploadWALMetadataFile(ok)

SpecWal == InitWal /\ [][NextWal]_vars

\* A step leaves every archived WAL object as it is
ArchivedKept ==
    \A w \in DOMAIN walArchive : w \in DOMAIN walArchive' /\ walArchive'[w] = walArchive[w]

\* C15: with prevent-WAL-overwrite enabled no step changes an archived WAL
\* object, and a returned push made no PutObject for its WAL unless the WAL had
\* no archived copy; with a readable archived copy it returned
\* CantOverwriteWalFileError if the copy differs and nil if it is equal.
C15_NoOverwrite ==
    /\ [][preventWalOverwrite => ArchivedKept]_vars
    /\ [](preventWalOverwrite /\ walPc = "returned" =>
             /\ walAtCall.exists => (walPuts = 0 /\ walErr # "none")
             /\ (walPuts > 0) => ~walAtCall.exists
             /\ (walAtCall.exists /\ walCheckIo = "ok") =>
                   walErr = IF walAtCall.data # walPush.bytes
                            THEN "CantOverwriteWalFileError" ELSE "nil")

\* C15 witness: with the setting on, seg1 was archived with content 1, then a
\* push of seg1 with content 2 returned CantOverwriteWalFileError without a
\* PutObject and the archive still holds content 1.
C15_Witness ==
    /\ preventWalOverwrite
    /\ walPc = "returned"
    /\ walPush = [name |-> "seg1", bytes |-> 2]
    /\ walAtCall = [exists |-> TRUE, data |-> 1]
    /\ walErr = "CantOverwriteWalFileError"
    /\ walPuts = 0
    /\ Decompress(walArchive["seg1"]) = 1

(***************************************************************************)
(* wal-g copy (copy_handler.go): SpecCopy.  startCopy runs on a list of    *)
(* infosLen objects; element k of infos is the number k, from 0.           *)
(***************************************************************************)
MaxInfos == 9          \* objects selected for copying

\* var maxParallelJobsCount = 8
maxParallelJobsCount == 8

\* HandleCopy has selected the objects and calls startCopy(infos)
InitCopy ==
    /\ UploadIdle
    /\ PipeIdle
    /\ CryptIdle
    /\ FetchIdle
    /\ PartsIdle
    /\ MetaIdle
    /\ SizeIdle
    /\ HeaderIdle
    /\ PushIdle
    /\ FileTarIdle
    /\ ExistsIdle
    /\ LzoIdle
    /\ QueryIdle
    /\ PageIdle
    /\ RestoreIdle
    /\ WalIdle
    /\ ComposeIdle
    /\ infosLen \in 0..MaxInfos
    /\ copyPc = "outer"
    /\ copyI = 0
    /\ copyJ = 0
    /\ jobsToRun = 0
    /\ copyWg = 0
    /\ copyCalls = [k \in 0..(infosLen - 1) |-> 0]
    /\ copyRunning = {}

\* for i := 0; i < len(infos); i += maxParallelJobsCount: the head of the
\* loop, jobsToRun and a new WaitGroup; after the loop "Success." is logged
OuterLoop ==
    /\ copyPc = "outer"
    /\ IF copyI < infosLen
       THEN /\ jobsToRun' = Min(maxParallelJobsCount, infosLen - (copyI + 1))
            /\ copyWg' = 0
            /\ copyJ' = 0
            /\ copyPc' = "inner"
       ELSE /\ copyPc' = "success"
            /\ UNCHANGED <<jobsToRun, copyWg, copyJ>>
    /\ UNCHANGED <<notCopy, infosLen, copyI, copyCalls, copyRunning>>

\* for j := 0; j < jobsToRun; j++: wg.Add(1); go copyObject(infos[i+j], &wg)
GoCopyObject ==
    /\ copyPc = "inner"
    /\ copyJ < jobsToRun
    /\ copyWg' = copyWg + 1
    /\ copyCalls' = [copyCalls EXCEPT ![copyI + copyJ] = @ + 1]
    /\ copyRunning' = copyRunning \cup {copyI + copyJ}
    /\ copyJ' = copyJ + 1
    /\ UNCHANGED <<notCopy, infosLen, copyPc, copyI, jobsToRun>>

\* the inner loop is over: wg.Wait() is entered
InnerDone ==
    /\ copyPc = "inner"
    /\ copyJ >= jobsToRun
    /\ copyPc' = "wait"
    /\ UNCHANGED <<notCopy, infosLen, copyI, copyJ, jobsToRun, copyWg, copyCalls,
                   copyRunning>>

\* copyObject returns (deferred wg.Done()), or ReadObject or PutObject fails
\* and FatalOnError ends the process
CopyObjectReturn(k, ok) ==
    /\ copyPc # "fatal"
    /\ k \in copyRunning
    /\ copyRunning' = copyRunning \ {k}
    /\ IF ok
       THEN /\ copyWg' = copyWg - 1
            /\ UNCHANGED copyPc
       ELSE /\ copyPc' = "fatal"
            /\ UNCHANGED copyWg
    /\ UNCHANGED <<notCopy, infosLen, copyI, copyJ, jobsToRun, copyCalls>>

\* wg.Wait() returns and the outer loop steps
WaitReturn ==
    /\ copyPc = "wait"
    /\ copyWg = 0
    /\ copyI' = copyI + maxParallelJobsCount
    /\ copyPc' = "outer"
    /\ UNCHANGED <<notCopy, infosLen, copyJ, jobsToRun, copyWg, copyCalls, copyRunning>>

NextCopy ==
    \/ OuterLoop
    \/ GoCopyObject
    \/ InnerDone
    \/ \E k \in 0..(MaxInfos - 1), ok \in BOOLEAN : CopyObjectReturn(k, ok)
    \/ WaitReturn

SpecCopy == InitCopy /\ [][NextCopy]_vars

\* C16 as stated: when startCopy logs success, copyObject has been invoked
\* exactly once for each element of infos.
C16_CopiesEveryObject ==
    (copyPc = "success") => \A k \in 0..(infosLen - 1) : copyCalls[k] = 1

(***************************************************************************)
(* SimpleTarBallComposer (simple_tar_ball_composer.go) on the tarball      *)
(* queue of spec.md 4.6: SpecCompose.  The walker calls AddFile and        *)
(* AddHeader one after another and PackTarballs at the end; the packing    *)
(* tasks of the error group run beside it.  Tarballs are numbered from 1.  *)
(***************************************************************************)
QueueSize == 2         \* N, the tarballs of the queue
MaxCalls == 3          \* AddFile and AddHeader calls of the walker

\* The tarballs in a queue
InQueue(q) == {q[i] : i \in 1..Len(q)}

DequeCtxReady_queueOnly(q, done) == q # <<>>

\* DequeCtx can return: a tarball is available or the context is cancelled
DequeCtxReady(q, done) == done \/ q # <<>>

\* DequeCtx(ctx): Cancelled on the cancellation signal, else the next tarball
DequeCtx(q, done) ==
    IF done THEN [err |-> TRUE, tarBall |-> 0, queue |-> q]
    ELSE [err |-> FALSE, tarBall |-> Head(q), queue |-> Tail(q)]

\* EnqueueBack(tarBall)
EnqueueBack(q, tarBall) == Append(q, tarBall)

AddFileStartsTask_always(err) == TRUE

\* AddFile: if err != nil { return }
AddFileStartsTask(err) == ~err

AddFileQueueAfterGo_enqueue(q, tarBall) == Append(q, tarBall)

\* AddFile after errorGroup.Go: the tarball stays with the task, AddFile
\* itself gives nothing back
AddFileQueueAfterGo(q, tarBall) == q

\* The packing task after PackFileIntoTar: if err != nil { return err }
afterPack(ok) == IF ok THEN "enqueue" ELSE "failed"

groupErrAfter_lost(err, k) == err

\* errgroup: the first task that returns an error sets the error of the group
groupErrAfter(err, k) == IF err = 0 THEN k ELSE err

PackTarballs_keepSets(err) ==
    [sets |-> "tarFileSets", err |-> err]

\* PackTarballs: (nil, err) if Wait returned an error, else (tarFileSets, nil)
PackTarballs(err) ==
    IF err # 0 THEN [sets |-> "nil", err |-> err]
    ELSE [sets |-> "tarFileSets", err |-> 0]

\* The tasks started by errorGroup.Go that have not returned
RunningTasks == {k \in 1..Len(ptasks) : ptasks[k].pc \in {"pack", "enqueue"}}

\* NewSimpleTarBallComposer on a started queue of QueueSize tarballs
InitCompose ==
    /\ UploadIdle
    /\ PipeIdle
    /\ CryptIdle
    /\ FetchIdle
    /\ PartsIdle
    /\ MetaIdle
    /\ SizeIdle
    /\ HeaderIdle
    /\ PushIdle
    /\ FileTarIdle
    /\ ExistsIdle
    /\ LzoIdle
    /\ QueryIdle
    /\ PageIdle
    /\ RestoreIdle
    /\ WalIdle
    /\ CopyIdle
    /\ tbQueue = [i \in 1..QueueSize |-> i]
    /\ tbCount = QueueSize
    /\ tbCut = {}
    /\ wCall = NoCall
    /\ wCalls = 0
    /\ wLog = <<>>
    /\ wState = "walking"
    /\ ptasks = <<>>
    /\ ctxDone = FALSE
    /\ groupErr = 0
    /\ errLog = <<>>
    /\ packSets = "none"
    /\ packErr = 0

\* The walker calls AddFile(info)
AddFileCall ==
    /\ wState = "walking"
    /\ wCall.op = "none"
    /\ wCalls < MaxCalls
    /\ wCalls' = wCalls + 1
    /\ wLog' = Append(wLog, "AddFile")
    /\ wCall' = [op |-> "AddFile", pc |-> "deque", tarBall |-> 0, afterCancel |-> ctxDone]
    /\ UNCHANGED <<notCompose, tbQueue, tbCount, tbCut, wState, ptasks, ctxDone, groupErr,
                   errLog, packSets, packErr>>

\* AddFile: tarBall, err := DequeCtx(ctx); on an error AddFile returns
AddFileDeque ==
    /\ wCall.op = "AddFile"
    /\ wCall.pc = "deque"
    /\ DequeCtxReady(tbQueue, ctxDone)
    /\ LET d == DequeCtx(tbQueue, ctxDone)
       IN /\ tbQueue' = d.queue
          /\ wCall' = IF AddFileStartsTask(d.err)
                      THEN [wCall EXCEPT !.pc = "go", !.tarBall = d.tarBall]
                      ELSE NoCall
    /\ UNCHANGED <<notCompose, tbCount, tbCut, wCalls, wLog, wState, ptasks, ctxDone,
                   groupErr, errLog, packSets, packErr>>

\* AddFile: tarBall.SetUp, errorGroup.Go(task), return
AddFileGo ==
    /\ wCall.op = "AddFile"
    /\ wCall.pc = "go"
    /\ ptasks' = Append(ptasks, [pc |-> "pack", tarBall |-> wCall.tarBall,
                                 afterCancel |-> wCall.afterCancel])
    /\ tbQueue' = AddFileQueueAfterGo(tbQueue, wCall.tarBall)
    /\ wCall' = NoCall
    /\ UNCHANGED <<notCompose, tbCount, tbCut, wCalls, wLog, wState, ctxDone, groupErr,
                   errLog, packSets, packErr>>

\* Task k: PackFileIntoTar returns; on an error the task returns it, which
\* cancels the context of the group
PackFileIntoTar(k, ok) ==
    /\ k \in 1..Len(ptasks)
    /\ ptasks[k].pc = "pack"
    /\ ptasks' = [ptasks EXCEPT ![k].pc = afterPack(ok)]
    /\ IF afterPack(ok) = "failed"
       THEN /\ groupErr' = groupErrAfter(groupErr, k)
            /\ errLog' = Append(errLog, k)
            /\ ctxDone' = TRUE
       ELSE UNCHANGED <<groupErr, errLog, ctxDone>>
    /\ UNCHANGED <<notCompose, tbQueue, tbCount, tbCut, wCall, wCalls, wLog, wState,
                   packSets, packErr>>

\* Task k: CheckSizeAndEnqueueBack gives the tarball back, or cuts it and puts
\* a fresh one into the queue, or fails to close it
CheckSizeAndEnqueueBack(k, outcome) ==
    /\ k \in 1..Len(ptasks)
    /\ ptasks[k].pc = "enqueue"
    /\ \/ /\ outcome = "back"
          /\ tbQueue' = EnqueueBack(tbQueue, ptasks[k].tarBall)
          /\ ptasks' = [ptasks EXCEPT ![k].pc = "done"]
          /\ UNCHANGED <<tbCount, tbCut, groupErr, errLog, ctxDone>>
       \/ /\ outcome = "cut"
          /\ tbCut' = tbCut \cup {ptasks[k].tarBall}
          /\ tbCount' = tbCount + 1
          /\ tbQueue' = EnqueueBack(tbQueue, tbCount + 1)
          /\ ptasks' = [ptasks EXCEPT ![k].pc = "done"]
          /\ UNCHANGED <<groupErr, errLog, ctxDone>>
       \/ /\ outcome = "error"
          /\ ptasks' = [ptasks EXCEPT ![k].pc = "failed"]
          /\ groupErr' = groupErrAfter(groupErr, k)
          /\ errLog' = Append(errLog, k)
          /\ ctxDone' = TRUE
          /\ UNCHANGED <<tbQueue, tbCount, tbCut>>
    /\ UNCHANGED <<notCompose, wCall, wCalls, wLog, wState, packSets, packErr>>

\* The walker calls AddHeader(fileInfoHeader, info)
AddHeaderCall ==
    /\ wState = "walking"
    /\ wCall.op = "none"
    /\ wCalls < MaxCalls
    /\ wCalls' = wCalls + 1
    /\ wLog' = Append(wLog, "AddHeader")
    /\ wCall' = [op |-> "AddHeader", pc |-> "deque", tarBall |-> 0, afterCancel |-> ctxDone]
    /\ UNCHANGED <<notCompose, tbQueue, tbCount, tbCut, wState, ptasks, ctxDone, groupErr,
                   errLog, packSets, packErr>>

\* AddHeader: tarBall, err := DequeCtx(ctx); on an error errorGroup.Wait()
AddHeaderDeque ==
    /\ wCall.op = "AddHeader"
    /\ wCall.pc = "deque"
    /\ DequeCtxReady(tbQueue, ctxDone)
    /\ LET d == DequeCtx(tbQueue, ctxDone)
       IN /\ tbQueue' = d.queue
          /\ wCall' = IF d.err THEN [wCall EXCEPT !.pc = "wait"]
                      ELSE [wCall EXCEPT !.pc = "write", !.tarBall = d.tarBall]
    /\ UNCHANGED <<notCompose, tbCount, tbCut, wCalls, wLog, wState, ptasks, ctxDone,
                   groupErr, errLog, packSets, packErr>>

\* AddHeader: errorGroup.Wait() returns when every task has returned; the
\* walker stops on the error
AddHeaderWait ==
    /\ wCall.op = "AddHeader"
    /\ wCall.pc = "wait"
    /\ RunningTasks = {}
    /\ ctxDone' = TRUE
    /\ wCall' = NoCall
    /\ wState' = IF groupErr # 0 THEN "failed" ELSE wState
    /\ UNCHANGED <<notCompose, tbQueue, tbCount, tbCut, wCalls, wLog, ptasks, groupErr,
                   errLog, packSets, packErr>>

\* AddHeader: the header is written, and the deferred EnqueueBack gives the
\* tarball back; the walker stops if WriteHeader failed
AddHeaderWrite(ok) ==
    /\ wCall.op = "AddHeader"
    /\ wCall.pc = "write"
    /\ tbQueue' = EnqueueBack(tbQueue, wCall.tarBall)
    /\ wCall' = NoCall
    /\ wState' = IF ok THEN wState ELSE "failed"
    /\ UNCHANGED <<notCompose, tbCount, tbCut, wCalls, wLog, ptasks, ctxDone, groupErr,
                   errLog, packSets, packErr>>

\* The walk is over: the walker calls PackTarballs()
PackTarballsCall ==
    /\ wState = "walking"
    /\ wCall.op = "none"
    /\ wCall' = [op |-> "PackTarballs", pc |-> "wait", tarBall |-> 0, afterCancel |-> ctxDone]
    /\ wState' = "packing"
    /\ UNCHANGED <<notCompose, tbQueue, tbCount, tbCut, wCalls, wLog, ptasks, ctxDone,
                   groupErr, errLog, packSets, packErr>>

\* PackTarballs: errorGroup.Wait() returns when every task has returned
PackTarballsReturn ==
    /\ wCall.op = "PackTarballs"
    /\ RunningTasks = {}
    /\ ctxDone' = TRUE
    /\ LET r == PackTarballs(groupErr)
       IN /\ packSets' = r.sets
          /\ packErr' = r.err
    /\ wCall' = NoCall
    /\ wState' = "packed"
    /\ UNCHANGED <<notCompose, tbQueue, tbCount, tbCut, wCalls, wLog, ptasks, groupErr,
                   errLog>>

NextCompose ==
    \/ AddFileCall
    \/ AddFileDeque
    \/ AddFileGo
    \/ \E k \in 1..MaxCalls, ok \in BOOLEAN : PackFileIntoTar(k, ok)
    \/ \E k \in 1..MaxCalls, outcome \in {"back", "cut", "error"} :
          CheckSizeAndEnqueueBack(k, outcome)
    \/ AddHeaderCall
    \/ AddHeaderDeque
    \/ AddHeaderWait
    \/ \E ok \in BOOLEAN : AddHeaderWrite(ok)
    \/ PackTarballsCall
    \/ PackTarballsReturn

SpecCompose == InitCompose /\ [][NextCompose]_vars

\* The scheduler runs every started task, and the walker goes on inside the
\* call it is in; when the walker makes its next call is up to the walker
SpecComposeFair ==
    /\ InitCompose
    /\ [][NextCompose]_vars
    /\ WF_vars(AddFileDeque)
    /\ WF_vars(AddFileGo)
    /\ WF_vars(AddHeaderDeque)
    /\ WF_vars(AddHeaderWait)
    /\ WF_vars(\E ok \in BOOLEAN : AddHeaderWrite(ok))
    /\ WF_vars(PackTarballsReturn)
    /\ \A k \in 1..MaxCalls :
          /\ WF_vars(\E ok \in BOOLEAN : PackFileIntoTar(k, ok))
          /\ WF_vars(\E outcome \in {"back", "cut", "error"} : CheckSizeAndEnqueueBack(k, outcome))

\* Who owns tarball t: the running tasks that took it, and the walker while a
\* call of it holds it
Owners(t) ==
    {<<"task", k>> : k \in {j \in RunningTasks : ptasks[j].tarBall = t}}
        \cup (IF wCall.tarBall = t THEN {<<"walker", 0>>} ELSE {})

\* C17: at every moment a tarball has at most one owner (a packing task that
\* has not given it back, or the AddFile or AddHeader call that dequeued it),
\* and a tarball in the queue has none.
C17_ExclusiveOwner ==
    \A t \in 1..tbCount :
        /\ Cardinality(Owners(t)) <= 1
        /\ t \in InQueue(tbQueue) => Owners(t) = {}

\* C17 witness: two packing tasks write tarballs 1 and 2 while the queue is
\* empty.
C17_Witness ==
    /\ Len(ptasks) = 2
    /\ ptasks[1].pc = "pack" /\ ptasks[1].tarBall = 1
    /\ ptasks[2].pc = "pack" /\ ptasks[2].tarBall = 2
    /\ tbQueue = <<>>

\* C18: at every moment at most QueueSize tarballs are open (created and not
\* cut), at most QueueSize packing tasks are running, and every running task
\* holds an open tarball of its own that is not in the queue.
C18_AtMostN ==
    /\ tbCount - Cardinality(tbCut) <= QueueSize
    /\ Cardinality(RunningTasks) <= QueueSize
    /\ \A k \in RunningTasks :
          /\ ptasks[k].tarBall \in (1..tbCount) \ tbCut
          /\ ptasks[k].tarBall \notin InQueue(tbQueue)
          /\ \A j \in RunningTasks : ptasks[j].tarBall = ptasks[k].tarBall => j = k

\* C18 witness: QueueSize tasks are running and the next AddFile waits in
\* DequeCtx on the empty queue.
C18_Witness ==
    /\ Cardinality(RunningTasks) = QueueSize
    /\ wCall.op = "AddFile"
    /\ wCall.pc = "deque"
    /\ tbQueue = <<>>
    /\ ~ctxDone

\* C19: once a task has returned an error the context is cancelled, no task
\* was started by an AddFile called after the cancellation, and PackTarballs
\* returns the first error and no tar file sets.
C19_FirstErrorCancels ==
    /\ errLog # <<>> => (ctxDone /\ groupErr = errLog[1])
    /\ \A k \in 1..Len(ptasks) : ~ptasks[k].afterCancel
    /\ (wState = "packed" /\ errLog # <<>>) =>
          (packSets = "nil" /\ packErr = errLog[1])

\* C19 witness: the only task failed, two AddFile calls made after that
\* started nothing, and PackTarballs returned the error of task 1.
C19_Witness ==
    /\ wState = "packed"
    /\ wLog = <<"AddFile", "AddFile", "AddFile">>
    /\ Len(ptasks) = 1
    /\ errLog = <<1>>
    /\ packSets = "nil"
    /\ packErr = 1

\* The tarballs that are neither in the queue nor cut
Outstanding == (1..tbCount) \ (InQueue(tbQueue) \cup tbCut)

\* C20 as stated: every dequeued tarball is given back, so when the walker has
\* stopped and every task has returned, no tarball is outstanding.
C20_AllGivenBack ==
    (wState \in {"packed", "failed"} /\ RunningTasks = {}) => Outstanding = {}

\* C27: once a packing task has failed, an AddFile or AddHeader call that is
\* in progress returns, and a PackTarballs call that is in progress returns.
C27_NoBlockAfterFailure ==
    /\ (errLog # <<>> /\ wCall.op \in {"AddFile", "AddHeader"}) ~> (wCall.op = "none")
    /\ (errLog # <<>> /\ wCall.op = "PackTarballs") ~> (wState = "packed")

\* C27 witness: AddHeader was called after the failure of a task and waits in
\* errorGroup.Wait() for a task that is still running.
C27_Witness ==
    /\ errLog # <<>>
    /\ wCall.op = "AddHeader"
    /\ wCall.pc = "wait"
    /\ wCall.afterCancel
    /\ RunningTasks # {}

\* The AddFile calls the walker has made
AddFileCalls == {i \in 1..Len(wLog) : wLog[i] = "AddFile"}

\* C28: if PackTarballs returns a nil error, every AddFile call made before
\* has started a task, and each task has packed its file without an error
\* and given its tarball back.
C28_NilMeansAllPacked ==
    (wState = "packed" /\ packErr = 0) =>
        /\ Len(ptasks) = Cardinality(AddFileCalls)
        /\ \A k \in 1..Len(ptasks) : ptasks[k].pc = "done"
        /\ errLog = <<>>

\* C28 witness: PackTarballs returned nil after three AddFile calls.
C28_Witness ==
    /\ wState = "packed"
    /\ packErr = 0
    /\ wLog = <<"AddFile", "AddFile", "AddFile">>
    /\ Len(ptasks) = 3

(***************************************************************************)
(* PgQueryRunner (queryRunner.go): SpecQuery.  A query is the record of    *)
(* the function it calls, the columns that function is read as (from),     *)
(* the offset function applied to the lsn, and the selected columns.       *)
(***************************************************************************)
\* server_version_num values of a runner, 0 for a version that was never set
Versions == {-1, 0, 80400, 89999, 90000, 90500, 90599, 90600, 99999, 100000, 130000}

BuildStartBackup_noLowerBound(version) ==
    IF version >= 100000
    THEN [query |-> [call |-> "pg_start_backup($1, true, false)",
                     offsetFn |-> "pg_walfile_name_offset", from |-> <<"lsn">>,
                     columns |-> <<"file_name", "lsn", "pg_is_in_recovery">>],
          err |-> "nil"]
    ELSE IF version >= 90600
    THEN [query |-> [call |-> "pg_start_backup($1, true, false)",
                     offsetFn |-> "pg_xlogfile_name_offset", from |-> <<"lsn">>,
                     columns |-> <<"file_name", "lsn", "pg_is_in_recovery">>],
          err |-> "nil"]
    ELSE IF version # 0
    THEN [query |-> [call |-> "pg_start_backup($1, true)",
                     offsetFn |-> "pg_xlogfile_name_offset", from |-> <<"lsn">>,
                     columns |-> <<"file_name", "lsn", "pg_is_in_recovery">>],
          err |-> "nil"]
    ELSE [query |-> NoQuery, err |-> "NoPostgresVersionError"]

\* BuildStartBackup: the switch on queryRunner.Version
BuildStartBackup(version) ==
    IF version >= 100000
    THEN [query |-> [call |-> "pg_start_backup($1, true, false)",
                     offsetFn |-> "pg_walfile_name_offset", from |-> <<"lsn">>,
                     columns |-> <<"file_name", "lsn", "pg_is_in_recovery">>],
          err |-> "nil"]
    ELSE IF version >= 90600
    THEN [query |-> [call |-> "pg_start_backup($1, true, false)",
                     offsetFn |-> "pg_xlogfile_name_offset", from |-> <<"lsn">>,
                     columns |-> <<"file_name", "lsn", "pg_is_in_recovery">>],
          err |-> "nil"]
    ELSE IF version >= 90000
    THEN [query |-> [call |-> "pg_start_backup($1, true)",
                     offsetFn |-> "pg_xlogfile_name_offset", from |-> <<"lsn">>,
                     columns |-> <<"file_name", "lsn", "pg_is_in_recovery">>],
          err |-> "nil"]
    ELSE IF version = 0
    THEN [query |-> NoQuery, err |-> "NoPostgresVersionError"]
    ELSE [query |-> NoQuery, err |-> "UnsupportedPostgresVersionError"]

BuildStopBackup_from10(version) ==
    IF version >= 100000
    THEN [query |-> [call |-> "pg_stop_backup(false)", offsetFn |-> "",
                     from |-> <<"labelfile", "spcmapfile", "lsn">>,
                     columns |-> <<"labelfile", "spcmapfile", "lsn">>],
          err |-> "nil"]
    ELSE IF version >= 90000
    THEN [query |-> [call |-> "pg_stop_backup()", offsetFn |-> "pg_xlogfile_name_offset",
                     from |-> <<"lsn">>,
                     columns |-> <<"file_name", "file_offset", "lsn">>],
          err |-> "nil"]
    ELSE IF version = 0
    THEN [query |-> NoQuery, err |-> "NoPostgresVersionError"]
    ELSE [query |-> NoQuery, err |-> "UnsupportedPostgresVersionError"]

\* BuildStopBackup: the switch on queryRunner.Version
BuildStopBackup(version) ==
    IF version >= 90600
    THEN [query |-> [call |-> "pg_stop_backup(false)", offsetFn |-> "",
                     from |-> <<"labelfile", "spcmapfile", "lsn">>,
                     columns |-> <<"labelfile", "spcmapfile", "lsn">>],
          err |-> "nil"]
    ELSE IF version >= 90000
    THEN [query |-> [call |-> "pg_stop_backup()", offsetFn |-> "pg_xlogfile_name_offset",
                     from |-> <<"lsn">>,
                     columns |-> <<"file_name", "file_offset", "lsn">>],
          err |-> "nil"]
    ELSE IF version = 0
    THEN [query |-> NoQuery, err |-> "NoPostgresVersionError"]
    ELSE [query |-> NoQuery, err |-> "UnsupportedPostgresVersionError"]

stopNext_setIgnored(pc, ok) ==
    IF ~ok /\ pc = "begin" THEN "returned"
    ELSE IF ~ok /\ pc # "set" THEN "defer"
    ELSE CASE pc = "begin" -> "set"
           [] pc = "set" -> "build"
           [] pc = "build" -> "query"
           [] pc = "query" -> "commit"
           [] pc = "commit" -> "defer"

\* stopBackup: where it goes after a step: an error returns at once, through
\* the deferred Rollback once the transaction was begun
stopNext(pc, ok) ==
    IF ~ok /\ pc = "begin" THEN "returned"
    ELSE IF ~ok THEN "defer"
    ELSE CASE pc = "begin" -> "set"
           [] pc = "set" -> "build"
           [] pc = "build" -> "query"
           [] pc = "query" -> "commit"
           [] pc = "commit" -> "defer"

\* The error stopBackup returns when the step at pc fails
stopError(pc) ==
    CASE pc = "begin" -> "transaction begin failed"
      [] pc = "set" -> "failed setting statement timeout in transaction"
      [] pc = "build" -> "Building stop backup query failed"
      [] pc = "query" -> "stop backup failed"
      [] pc = "commit" -> "commit failed"

\* What Scan(&label, &offsetMap, &lsnStr) reads of the row of a query
Scanned(query) ==
    [label |-> query.columns[1], offsetMap |-> query.columns[2], lsnStr |-> query.columns[3]]

\* A statement the connection was sent, and whether it succeeded
Sent(stmt, ok) == [stmt |-> stmt, ok |-> ok]

\* A runner made by NewPgQueryRunner on a server of some version
InitQuery ==
    /\ UploadIdle
    /\ PipeIdle
    /\ CryptIdle
    /\ FetchIdle
    /\ PartsIdle
    /\ MetaIdle
    /\ SizeIdle
    /\ HeaderIdle
    /\ PushIdle
    /\ FileTarIdle
    /\ ExistsIdle
    /\ LzoIdle
    /\ PageIdle
    /\ RestoreIdle
    /\ WalIdle
    /\ CopyIdle
    /\ ComposeIdle
    /\ Version \in Versions
    /\ qOp = "none"
    /\ qPc = "none"
    /\ qQuery = NoQuery
    /\ qErr = "none"
    /\ txStatus = "none"
    /\ sqlLog = <<>>
    /\ stopResult = NoStopResult

CallBuildStartBackup ==
    /\ qOp = "none"
    /\ qOp' = "BuildStartBackup"
    /\ LET r == BuildStartBackup(Version)
       IN /\ qQuery' = r.query
          /\ qErr' = r.err
    /\ UNCHANGED <<notQuery, Version, qPc, txStatus, sqlLog, stopResult>>

CallBuildStopBackup ==
    /\ qOp = "none"
    /\ qOp' = "BuildStopBackup"
    /\ LET r == BuildStopBackup(Version)
       IN /\ qQuery' = r.query
          /\ qErr' = r.err
    /\ UNCHANGED <<notQuery, Version, qPc, txStatus, sqlLog, stopResult>>

\* stopBackup() is called
stopBackupCall ==
    /\ qOp = "none"
    /\ qOp' = "stopBackup"
    /\ qPc' = "begin"
    /\ UNCHANGED <<notQuery, Version, qQuery, qErr, txStatus, sqlLog, stopResult>>

\* tx, err := conn.Begin()
txBegin(ok) ==
    /\ qOp = "stopBackup"
    /\ qPc = "begin"
    /\ sqlLog' = Append(sqlLog, Sent("begin", ok))
    /\ txStatus' = IF ok THEN "inProgress" ELSE txStatus
    /\ qPc' = stopNext(qPc, ok)
    /\ qErr' = IF ok THEN qErr ELSE stopError(qPc)
    /\ UNCHANGED <<notQuery, Version, qOp, qQuery, stopResult>>

\* tx.Exec("SET statement_timeout=0;")
txExecSet(ok) ==
    /\ qOp = "stopBackup"
    /\ qPc = "set"
    /\ sqlLog' = Append(sqlLog, Sent("SET statement_timeout=0", ok))
    /\ qPc' = stopNext(qPc, ok)
    /\ qErr' = IF stopNext(qPc, ok) = "defer" THEN stopError(qPc) ELSE qErr
    /\ UNCHANGED <<notQuery, Version, qOp, qQuery, txStatus, stopResult>>

\* stopBackupQuery, err := queryRunner.BuildStopBackup()
stopBackupBuild ==
    /\ qOp = "stopBackup"
    /\ qPc = "build"
    /\ LET r == BuildStopBackup(Version)
       IN /\ qQuery' = r.query
          /\ qPc' = stopNext(qPc, r.err = "nil")
          /\ qErr' = IF r.err = "nil" THEN qErr ELSE stopError(qPc)
    /\ UNCHANGED <<notQuery, Version, qOp, txStatus, sqlLog, stopResult>>

\* tx.QueryRow(stopBackupQuery).Scan(&label, &offsetMap, &lsnStr)
txQueryRow(ok) ==
    /\ qOp = "stopBackup"
    /\ qPc = "query"
    /\ sqlLog' = Append(sqlLog, Sent(qQuery.call, ok))
    /\ qPc' = stopNext(qPc, ok)
    /\ qErr' = IF ok THEN qErr ELSE stopError(qPc)
    /\ UNCHANGED <<notQuery, Version, qOp, qQuery, txStatus, stopResult>>

\* tx.Commit(), and on success return label, offsetMap, lsnStr, nil
txCommit(ok) ==
    /\ qOp = "stopBackup"
    /\ qPc = "commit"
    /\ sqlLog' = Append(sqlLog, Sent("commit", ok))
    /\ txStatus' = IF ok THEN "committed" ELSE "commitFailed"
    /\ qPc' = stopNext(qPc, ok)
    /\ qErr' = IF ok THEN "nil" ELSE stopError(qPc)
    /\ stopResult' = IF ok THEN Scanned(qQuery) ELSE NoStopResult
    /\ UNCHANGED <<notQuery, Version, qOp, qQuery>>

\* The deferred tx.Rollback(): a rollback of the transaction in progress, and
\* nothing on a transaction that Commit has closed; its error is ignored
stopBackupDefer(ok) ==
    /\ qOp = "stopBackup"
    /\ qPc = "defer"
    /\ IF txStatus = "inProgress"
       THEN /\ sqlLog' = Append(sqlLog, Sent("rollback", ok))
            /\ txStatus' = IF ok THEN "rolledBack" ELSE "rollbackFailed"
       ELSE UNCHANGED <<sqlLog, txStatus>>
    /\ qPc' = "returned"
    /\ UNCHANGED <<notQuery, Version, qOp, qQuery, qErr, stopResult>>

NextQuery ==
    \/ CallBuildStartBackup
    \/ CallBuildStopBackup
    \/ stopBackupCall
    \/ \E ok \in BOOLEAN : txBegin(ok)
    \/ \E ok \in BOOLEAN : txExecSet(ok)
    \/ stopBackupBuild
    \/ \E ok \in BOOLEAN : txQueryRow(ok)
    \/ \E ok \in BOOLEAN : txCommit(ok)
    \/ \E ok \in BOOLEAN : stopBackupDefer(ok)

SpecQuery == InitQuery /\ [][NextQuery]_vars

\* C21: version >= 10 gives the three-argument pg_start_backup with
\* pg_walfile_name_offset, 9.6 the same with pg_xlogfile_name_offset, 9.0-9.5
\* the two-argument pg_start_backup; from 9.6 on the stop query reads
\* (labelfile, spcmapfile, lsn) of pg_stop_backup(false), for 9.0-9.5 it calls
\* pg_stop_backup(), which gives only the lsn.
C21_QueryByVersion ==
    /\ (qOp = "BuildStartBackup" /\ Version >= 90000) =>
          /\ qErr = "nil"
          /\ qQuery.call = IF Version >= 90600 THEN "pg_start_backup($1, true, false)"
                           ELSE "pg_start_backup($1, true)"
          /\ qQuery.offsetFn = IF Version >= 100000 THEN "pg_walfile_name_offset"
                               ELSE "pg_xlogfile_name_offset"
    /\ (qOp = "BuildStopBackup" /\ Version >= 90000) =>
          /\ qErr = "nil"
          /\ qQuery.call = IF Version >= 90600 THEN "pg_stop_backup(false)"
                           ELSE "pg_stop_backup()"
          /\ qQuery.from = IF Version >= 90600 THEN <<"labelfile", "spcmapfile", "lsn">>
                           ELSE <<"lsn">>

\* C21 witness: the stop query of a 9.6 server.
C21_Witness ==
    /\ qOp = "BuildStopBackup"
    /\ Version = 90600
    /\ qQuery.call = "pg_stop_backup(false)"

\* C22 as stated: for every version below 90000, 0 included, both Build
\* functions return no query and the unsupported-version error.
C22_BelowNineUnsupported ==
    (qOp \in {"BuildStartBackup", "BuildStopBackup"} /\ Version < 90000) =>
        /\ qQuery = NoQuery
        /\ qErr = "UnsupportedPostgresVersionError"

\* C22 amended: for every version below 90000 both Build functions return no
\* query and an error: NoPostgresVersionError for the unset version 0,
\* UnsupportedPostgresVersionError for every other version.
C22_BelowNineFails ==
    (qOp \in {"BuildStartBackup", "BuildStopBackup"} /\ Version < 90000) =>
        /\ qQuery = NoQuery
        /\ qErr = IF Version = 0 THEN "NoPostgresVersionError"
                  ELSE "UnsupportedPostgresVersionError"

\* C22 witness: the start query of an 8.4 server is refused.
C22_Witness ==
    /\ qOp = "BuildStartBackup"
    /\ Version = 80400
    /\ qQuery = NoQuery
    /\ qErr = "UnsupportedPostgresVersionError"

\* Statement i of the log was sent after a successful statement stmt
After(i, stmt) == \E j \in 1..(i - 1) : sqlLog[j] = Sent(stmt, TRUE)

\* C23: the stop query is sent only after begin and SET statement_timeout=0
\* succeeded, commit is sent only after the stop query succeeded; stopBackup
\* returns nil only with the transaction committed, and when it returns an
\* error the three results are empty, nothing was committed, and a transaction
\* that was still in progress has been sent a rollback.
C23_StopInTransaction ==
    /\ \A i \in 1..Len(sqlLog) :
          /\ sqlLog[i].stmt \in {"pg_stop_backup(false)", "pg_stop_backup()"} =>
                (After(i, "begin") /\ After(i, "SET statement_timeout=0"))
          /\ sqlLog[i].stmt = "commit" =>
                (After(i, "pg_stop_backup(false)") \/ After(i, "pg_stop_backup()"))
    /\ (qOp = "stopBackup" /\ qPc = "returned" /\ qErr = "nil") =>
          (txStatus = "committed" /\ stopResult # NoStopResult)
    /\ (qOp = "stopBackup" /\ qPc = "returned" /\ qErr # "nil") =>
          /\ stopResult = NoStopResult
          /\ \A i \in 1..Len(sqlLog) : sqlLog[i] # Sent("commit", TRUE)
          /\ txStatus \in {"none", "rolledBack", "rollbackFailed", "commitFailed"}
          /\ txStatus \in {"rolledBack", "rollbackFailed"} <=>
                (After(Len(sqlLog) + 1, "begin")
                    /\ \A i \in 1..Len(sqlLog) : sqlLog[i].stmt # "commit")

\* C23 witness: pg_stop_backup(false) failed inside the transaction, which was
\* then rolled back.
C23_Witness ==
    /\ qOp = "stopBackup"
    /\ qPc = "returned"
    /\ qErr = "stop backup failed"
    /\ sqlLog = <<Sent("begin", TRUE), Sent("SET statement_timeout=0", TRUE),
                  Sent("pg_stop_backup(false)", FALSE), Sent("rollback", TRUE)>>

(***************************************************************************)
(* DecompressLzo (decompress.go): SpecLzo.  The stream is the sequence of  *)
(* its fields: the file header, then per block the words uncom, com and    *)
(* check and the block body, then the word uncom = 0.  A stream that was   *)
(* cut is a prefix of such a sequence.                                     *)
(***************************************************************************)
MaxBlocks == 2

Field(kind, val) == [kind |-> kind, val |-> val]

\* A block: its two lengths, and whether lzo.Decompress1X accepts its body
Blocks == [uncom : 1..2, com : 1..2, body : {0, 1}]

BlockFields(b) ==
    <<Field("uncom", b.uncom), Field("com", b.com), Field("check", 0), Field("body", b.body)>>

RECURSIVE AllFields(_)
AllFields(bs) == IF bs = <<>> THEN <<>> ELSE BlockFields(Head(bs)) \o AllFields(Tail(bs))

\* A complete .lzo file with the blocks bs
LzoFile(bs) == <<Field("hdr", 0)>> \o AllFields(bs) \o <<Field("uncom", 0)>>

\* The complete files and everything a cut can leave of them
LzoStreams ==
    UNION {{SubSeq(LzoFile(bs), 1, n) : n \in 0..Len(LzoFile(bs))} :
              bs \in UNION {[1..k -> Blocks] : k \in 0..MaxBlocks}}

\* src still has a field to read
HasField == lzPos < Len(lzSrc)

\* The loop head: binary.Read(src, ..., &uncom), then the test of uncom, then
\* the test of the error; a failed read leaves uncom as it was
afterUncom(uncom, readOk) ==
    IF uncom = 0 THEN [pc |-> "returned", err |-> "nil"]
    ELSE IF ~readOk THEN [pc |-> "returned", err |-> "DecompressLzo: read failed"]
    ELSE [pc |-> "com", err |-> "none"]

InitLzo ==
    /\ UploadIdle
    /\ PipeIdle
    /\ CryptIdle
    /\ FetchIdle
    /\ PartsIdle
    /\ MetaIdle
    /\ SizeIdle
    /\ HeaderIdle
    /\ PushIdle
    /\ FileTarIdle
    /\ ExistsIdle
    /\ PageIdle
    /\ RestoreIdle
    /\ WalIdle
    /\ CopyIdle
    /\ ComposeIdle
    /\ QueryIdle
    /\ lzSrc \in LzoStreams
    /\ lzPos = 0
    /\ lzPc = "none"
    /\ lzUncom = 0
    /\ lzCom = 0
    /\ lzDst = <<>>
    /\ lzErr = "none"

\* DecompressLzo(dst, src) is called
DecompressLzoCall ==
    /\ lzPc = "none"
    /\ lzPc' = "header"
    /\ UNCHANGED <<notLzo, lzSrc, lzPos, lzUncom, lzCom, lzDst, lzErr>>

\* The 33 skipped bytes, the file name and the file comment
ReadFileHeader ==
    /\ lzPc = "header"
    /\ IF HasField
       THEN /\ lzPos' = lzPos + 1
            /\ lzPc' = "uncom"
            /\ lzErr' = lzErr
       ELSE /\ lzPos' = lzPos
            /\ lzPc' = "returned"
            /\ lzErr' = "DecompressLzo: did not fill skip"
    /\ UNCHANGED <<notLzo, lzSrc, lzUncom, lzCom, lzDst>>

\* err := binary.Read(src, binary.BigEndian, &uncom) and the two tests
ReadUncom ==
    /\ lzPc = "uncom"
    /\ lzUncom' = IF HasField THEN lzSrc[lzPos + 1].val ELSE lzUncom
    /\ lzPos' = IF HasField THEN lzPos + 1 ELSE lzPos
    /\ LET r == afterUncom(lzUncom', HasField)
       IN /\ lzPc' = r.pc
          /\ lzErr' = r.err
    /\ UNCHANGED <<notLzo, lzSrc, lzCom, lzDst>>

\* err = binary.Read(src, binary.BigEndian, &com)
ReadCom ==
    /\ lzPc = "com"
    /\ IF HasField
       THEN /\ lzCom' = lzSrc[lzPos + 1].val
            /\ lzPos' = lzPos + 1
            /\ lzPc' = "check"
            /\ lzErr' = lzErr
       ELSE /\ lzPc' = "returned"
            /\ lzErr' = "DecompressLzo: read failed"
            /\ UNCHANGED <<lzCom, lzPos>>
    /\ UNCHANGED <<notLzo, lzSrc, lzUncom, lzDst>>

\* err = binary.Read(src, binary.BigEndian, &check)
ReadCheck ==
    /\ lzPc = "check"
    /\ IF HasField
       THEN /\ lzPos' = lzPos + 1
            /\ lzPc' = "body"
            /\ lzErr' = lzErr
       ELSE /\ lzPc' = "returned"
            /\ lzErr' = "DecompressLzo: read failed"
            /\ lzPos' = lzPos
    /\ UNCHANGED <<notLzo, lzSrc, lzUncom, lzCom, lzDst>>

\* The block body: copied when uncom <= com, decompressed otherwise, and
\* written to dst
ReadBody(writeOk) ==
    /\ lzPc = "body"
    /\ LET err == IF lzUncom <= lzCom
                  THEN IF HasField /\ writeOk THEN "nil" ELSE "DecompressLzo: copy failed"
                  ELSE IF ~HasField \/ lzSrc[lzPos + 1].val = 0
                       THEN "DecompressLzo: decompress lzo failed"
                       ELSE IF ~writeOk THEN "DecompressLzo: write to pipe failed"
                       ELSE "nil"
       IN /\ lzPos' = IF HasField THEN lzPos + 1 ELSE lzPos
          /\ lzDst' = IF err = "nil" THEN Append(lzDst, lzUncom) ELSE lzDst
          /\ lzPc' = IF err = "nil" THEN "uncom" ELSE "returned"
          /\ lzErr' = IF err = "nil" THEN lzErr ELSE err
    /\ UNCHANGED <<notLzo, lzSrc, lzUncom, lzCom>>

NextLzo ==
    \/ DecompressLzoCall
    \/ ReadFileHeader
    \/ ReadUncom
    \/ ReadCom
    \/ ReadCheck
    \/ \E writeOk \in BOOLEAN : ReadBody(writeOk)

SpecLzo == InitLzo /\ [][NextLzo]_vars

\* C24: DecompressLzo returns nil only if the terminating block, the word
\* uncom = 0, was read from src; a stream that ends before it gives an error.
C24_NilOnlyAfterTerminator ==
    (lzPc = "returned" /\ lzErr = "nil") =>
        \E i \in 1..lzPos : lzSrc[i] = Field("uncom", 0)

(***************************************************************************)
(* Backup.CheckExistence and Archive.CheckExistence: SpecExists.           *)
(***************************************************************************)
\* Keys of sentinel and WAL objects
S3Keys == {"k1", "k2", "k3"}

\* What goes wrong with a request: nothing, an AWS error with a code other
\* than NotFound, or an error that is not an awserr.Error
HeadFaults == {"none", "awsOther", "notAws"}

\* Svc.HeadObject: the error it returns
HeadObject(keys, key, fault) ==
    IF fault # "none" THEN fault
    ELSE IF key \in keys THEN "nil"
    ELSE "NotFound"

\* awsErr, ok := err.(awserr.Error)
IsAwsErr(err) == err \in {"NotFound", "awsOther"}

\* The body of both CheckExistence methods after HeadObject returned err
CheckExistence(err) ==
    IF err # "nil" /\ IsAwsErr(err)
    THEN IF err = "NotFound"
         THEN [exists |-> FALSE, err |-> "nil"]
         ELSE [exists |-> FALSE, err |-> err]
    ELSE [exists |-> TRUE, err |-> "nil"]

InitExists ==
    /\ UploadIdle
    /\ PipeIdle
    /\ CryptIdle
    /\ FetchIdle
    /\ PartsIdle
    /\ MetaIdle
    /\ SizeIdle
    /\ HeaderIdle
    /\ PushIdle
    /\ FileTarIdle
    /\ PageIdle
    /\ RestoreIdle
    /\ WalIdle
    /\ CopyIdle
    /\ ComposeIdle
    /\ QueryIdle
    /\ LzoIdle
    /\ bucket \in SUBSET S3Keys
    /\ exKind = "none"
    /\ exKey = "none"
    /\ exHead = "none"
    /\ exExists = FALSE
    /\ exErr = "none"

\* (b *Backup) CheckExistence() with b.Js = key
BackupCheckExistence(key, fault) ==
    /\ exKind' = "Backup"
    /\ exKey' = key
    /\ exHead' = HeadObject(bucket, key, fault)
    /\ exExists' = CheckExistence(exHead').exists
    /\ exErr' = CheckExistence(exHead').err
    /\ UNCHANGED <<notExists, bucket>>

\* (a *Archive) CheckExistence() with a.Archive = key
ArchiveCheckExistence(key, fault) ==
    /\ exKind' = "Archive"
    /\ exKey' = key
    /\ exHead' = HeadObject(bucket, key, fault)
    /\ exExists' = CheckExistence(exHead').exists
    /\ exErr' = CheckExistence(exHead').err
    /\ UNCHANGED <<notExists, bucket>>

NextExists ==
    \/ \E key \in S3Keys, fault \in HeadFaults : BackupCheckExistence(key, fault)
    \/ \E key \in S3Keys, fault \in HeadFaults : ArchiveCheckExistence(key, fault)

SpecExists == InitExists /\ [][NextExists]_vars

\* C25: CheckExistence returns (true, nil) only if HeadObject succeeded;
\* NotFound gives (false, nil), and no other error gives (true, nil).
C25_TrueOnlyOnSuccess ==
    exKind # "none" =>
        /\ (exExists /\ exErr = "nil") => exHead = "nil"
        /\ exHead = "NotFound" => (~exExists /\ exErr = "nil")

(***************************************************************************)
(* FileTarBall (tools): SpecFileTar.  A chunk in the part file records the *)
(* data written to the tar writer and the layers it passed through.        *)
(***************************************************************************)
MaxTarWrites == 3

TarData == {"a", "b", "c"}

\* SetUp: the writer handed to lz4.NewWriter in each branch
compressorSink(crypterUsed) ==
    IF crypterUsed THEN "file" ELSE "file"

\* SetUp: the Underlying of the outer CascadeWriteCloser, closed after the
\* compressor
cascadeUnderlying(crypterUsed) ==
    IF crypterUsed THEN <<"encryptor", "file">> ELSE <<"file">>

\* A chunk written to the tar writer arrives in the file through the
\* compressor and the compressor's sink
Arrives(data, sink) == [data |-> data, compressed |-> TRUE, encrypted |-> sink = "encryptor"]

InitFileTar ==
    /\ UploadIdle
    /\ PipeIdle
    /\ CryptIdle
    /\ FetchIdle
    /\ PartsIdle
    /\ MetaIdle
    /\ SizeIdle
    /\ HeaderIdle
    /\ PushIdle
    /\ PageIdle
    /\ RestoreIdle
    /\ WalIdle
    /\ CopyIdle
    /\ ComposeIdle
    /\ QueryIdle
    /\ LzoIdle
    /\ ExistsIdle
    /\ ftCrypter \in BOOLEAN
    /\ ftPc = "new"
    /\ ftSink = "none"
    /\ ftUnderlying = <<>>
    /\ ftFile = <<>>
    /\ ftWritten = 0

\* SetUp(crypter): nothing when the tar writer exists; a panic when os.Create
\* or crypter.Encrypt fails
SetUp(createOk, encryptOk) ==
    /\ ftPc \in {"new", "ready"}
    /\ IF ftPc = "ready"
       THEN UNCHANGED <<ftPc, ftSink, ftUnderlying>>
       ELSE IF ~createOk \/ (ftCrypter /\ ~encryptOk)
            THEN /\ ftPc' = "panicked"
                 /\ UNCHANGED <<ftSink, ftUnderlying>>
            ELSE /\ ftPc' = "ready"
                 /\ ftSink' = compressorSink(ftCrypter)
                 /\ ftUnderlying' = cascadeUnderlying(ftCrypter)
    /\ UNCHANGED <<notFileTar, ftCrypter, ftFile, ftWritten>>

\* A write of the packer to tarBall.TarWriter()
TarWrite(data) ==
    /\ ftPc = "ready"
    /\ ftWritten < MaxTarWrites
    /\ ftWritten' = ftWritten + 1
    /\ ftFile' = Append(ftFile, Arrives(data, ftSink))
    /\ UNCHANGED <<notFileTar, ftCrypter, ftPc, ftSink, ftUnderlying>>

\* CloseTar: the tar writer, then the compressor and its Underlying
CloseTar ==
    /\ ftPc = "ready"
    /\ ftPc' = "closed"
    /\ UNCHANGED <<notFileTar, ftCrypter, ftSink, ftUnderlying, ftFile, ftWritten>>

NextFileTar ==
    \/ \E createOk, encryptOk \in BOOLEAN : SetUp(createOk, encryptOk)
    \/ \E data \in TarData : TarWrite(data)
    \/ CloseTar

SpecFileTar == InitFileTar /\ [][NextFileTar]_vars

\* C26: with a crypter in use, every chunk in the part file has passed through
\* the compressor and then through the encryptor.
C26_AllEncrypted ==
    ftCrypter =>
        \A i \in 1..Len(ftFile) : ftFile[i].compressed /\ ftFile[i].encrypted

(***************************************************************************)
(* UploadFile / PushStreamToDestination (uploader.go): SpecPush.  The      *)
(* producer task of CompressAndEncrypt writes the compressed stream into   *)
(* an io.Pipe; Upload hands the read end to PutObject up to retries times. *)
(* A pipe write returns only when a reader has taken the bytes.            *)
(***************************************************************************)
MaxFileChunks == 3

\* The compressor's output for chunk k of the file, and its closing frame
Compressed(k) == [z |-> k, last |-> FALSE]
Footer == [z |-> 0, last |-> TRUE]

\* What CompressAndEncrypt produces for a file of n chunks: the content that
\* Upload is given
CompressedStream(n) == [k \in 1..n |-> Compressed(k)] \o <<Footer>>

InitPush ==
    /\ UploadIdle
    /\ PipeIdle
    /\ CryptIdle
    /\ FetchIdle
    /\ PartsIdle
    /\ MetaIdle
    /\ SizeIdle
    /\ HeaderIdle
    /\ PageIdle
    /\ RestoreIdle
    /\ WalIdle
    /\ CopyIdle
    /\ ComposeIdle
    /\ QueryIdle
    /\ LzoIdle
    /\ ExistsIdle
    /\ FileTarIdle
    /\ pfLen \in 0..MaxFileChunks
    /\ pfSent = 0
    /\ pfProd = "none"
    /\ pfUpPc = "none"
    /\ pfAttempt = 0
    /\ pfRead = <<>>
    /\ pfStored = FALSE
    /\ pfStore = <<>>

\* UploadFile(file): CompressAndEncrypt starts the producer task and returns
\* the read end, Upload enters its loop
UploadFileCall ==
    /\ pfUpPc = "none"
    /\ pfProd' = "copy"
    /\ pfUpPc' = "loop"
    /\ UNCHANGED <<notPush, pfLen, pfSent, pfAttempt, pfRead, pfStored, pfStore>>

\* Upload: err = uploader.UploadingFolder.PutObject(path, content)
PutObjectCall ==
    /\ pfUpPc = "loop"
    /\ pfUpPc' = "put"
    /\ pfAttempt' = pfAttempt + 1
    /\ pfRead' = <<>>
    /\ UNCHANGED <<notPush, pfLen, pfSent, pfProd, pfStored, pfStore>>

\* A write of the producer meets a read of PutObject: the pipe hands one
\* chunk over
PipeTransfer ==
    /\ pfProd = "copy"
    /\ pfUpPc = "put"
    /\ pfSent < Len(CompressedStream(pfLen))
    /\ pfSent' = pfSent + 1
    /\ pfRead' = Append(pfRead, CompressedStream(pfLen)[pfSent + 1])
    /\ UNCHANGED <<notPush, pfLen, pfProd, pfUpPc, pfAttempt, pfStored, pfStore>>

\* The producer has written everything: dstWriter.Close(), the task ends
ProducerClose ==
    /\ pfProd = "copy"
    /\ pfSent = Len(CompressedStream(pfLen))
    /\ pfProd' = "closed"
    /\ UNCHANGED <<notPush, pfLen, pfSent, pfUpPc, pfAttempt, pfRead, pfStored, pfStore>>

\* Reading the file or compressing fails: dstWriter.CloseWithError(e), the
\* task ends
ProducerFails ==
    /\ pfProd = "copy"
    /\ pfSent < Len(CompressedStream(pfLen))
    /\ pfProd' = "failed"
    /\ UNCHANGED <<notPush, pfLen, pfSent, pfUpPc, pfAttempt, pfRead, pfStored, pfStore>>

\* PutObject returns: nil after it has read content to the end and stored
\* what it read, or an error at any moment, also before its first read
PutObjectReturn(ok) ==
    /\ pfUpPc = "put"
    /\ ok => pfProd = "closed"
    /\ pfUpPc' = UploadNextPc(pfAttempt, ok)
    /\ pfStored' = IF ok THEN TRUE ELSE pfStored
    /\ pfStore' = IF ok THEN pfRead ELSE pfStore
    /\ UNCHANGED <<notPush, pfLen, pfSent, pfProd, pfAttempt, pfRead>>

\* Upload after the last attempt: Failed.Store(true), return err
UploadGivesUp ==
    /\ pfUpPc = "exhausted"
    /\ pfUpPc' = "err"
    /\ UNCHANGED <<notPush, pfLen, pfSent, pfProd, pfAttempt, pfRead, pfStored, pfStore>>

NextPush ==
    \/ UploadFileCall
    \/ PutObjectCall
    \/ PipeTransfer
    \/ ProducerClose
    \/ ProducerFails
    \/ \E ok \in BOOLEAN : PutObjectReturn(ok)
    \/ UploadGivesUp

SpecPush == InitPush /\ [][NextPush]_vars

\* The scheduler runs the producer task and the caller of Upload whenever
\* they can take a step
SpecPushFair ==
    /\ InitPush
    /\ [][NextPush]_vars
    /\ WF_vars(PipeTransfer)
    /\ WF_vars(ProducerClose)
    /\ WF_vars(PutObjectCall)
    /\ WF_vars(\E ok \in BOOLEAN : PutObjectReturn(ok))
    /\ WF_vars(UploadGivesUp)

\* C29: whatever the outcome of UploadFile, the producer task of
\* CompressAndEncrypt eventually terminates.
C29_ProducerTerminates ==
    (pfUpPc \in {"nil", "err"}) ~> (pfProd \in {"closed", "failed"})

\* C30: when Upload returns nil, the stored object is the entire content that
\* Upload was given.
C30_StoredIsContent ==
    pfUpPc = "nil" => (pfStored /\ pfStore = CompressedStream(pfLen))

(***************************************************************************)
(* getIncrementHeaderFields and the loops over diffMap: SpecHeader.        *)
(***************************************************************************)
\* A uint32 is held as two 16-bit halves, [hi, lo] for hi * 2^16 + lo, so
\* that its arithmetic is computed at its own width
Half == 2 ^ 16

\* Bytes of one block number in diffMap
sizeofInt32 == 4

\* Greatest low part of the diffBlockCount values drawn
MaxSmallCount == 3

\* The diffBlockCount values drawn: the small counts d, and the counts
\* k * 2^30 + d above each multiple of 2^30
BlockCounts == {[hi |-> k * (2 ^ 14), lo |-> d] : k \in 0..3, d \in 0..MaxSmallCount}

\* uint32(0)
zeroUint32 == [hi |-> 0, lo |-> 0]

\* a * k for a uint32 a and a small constant k, as Go computes it: the bits
\* above the 32nd are lost
mulUint32(a, k) ==
    [hi |-> (a.hi * k + (a.lo * k) \div Half) % Half, lo |-> (a.lo * k) % Half]

\* The product a * k does not fit a uint32
mulWraps(a, k) == a.hi * k + (a.lo * k) \div Half >= Half

\* i++ on a uint32
incUint32(a) ==
    IF a.lo + 1 = Half THEN [hi |-> (a.hi + 1) % Half, lo |-> 0]
    ELSE [hi |-> a.hi, lo |-> a.lo + 1]

\* a < b and a <= b
ltUint32(a, b) == a.hi < b.hi \/ (a.hi = b.hi /\ a.lo < b.lo)
leUint32(a, b) == a = b \/ ltUint32(a, b)

\* diffMap[lo:hi] of a slice of length len does not panic
sliceInside(lo, hi, len) == leUint32(lo, hi) /\ leUint32(hi, len)

InitHeader ==
    /\ UploadIdle
    /\ PipeIdle
    /\ CryptIdle
    /\ FetchIdle
    /\ PartsIdle
    /\ MetaIdle
    /\ SizeIdle
    /\ PageIdle
    /\ RestoreIdle
    /\ WalIdle
    /\ CopyIdle
    /\ ComposeIdle
    /\ QueryIdle
    /\ LzoIdle
    /\ ExistsIdle
    /\ FileTarIdle
    /\ PushIdle
    /\ hdOp = "none"
    /\ hdCount \in BlockCounts
    /\ hdLen = zeroUint32
    /\ hdI = zeroUint32
    /\ hdPc = "none"

\* getIncrementHeaderFields(increment), called by op: diffMap is allocated
\* with diffBlockCount*sizeofInt32 bytes and filled by io.ReadFull, which
\* fails when the increment is shorter (full = FALSE)
CallGetIncrementHeaderFields(op, full) ==
    /\ hdPc = "none"
    /\ hdOp' = op
    /\ hdLen' = mulUint32(hdCount, sizeofInt32)
    /\ hdPc' = IF full THEN "loop" ELSE "error"
    /\ UNCHANGED <<notHeader, hdCount, hdI>>

\* One turn of `for i := uint32(0); i < diffBlockCount; i++` with its
\* diffMap[i*sizeofInt32 : (i+1)*sizeofInt32]
DiffMapLoop ==
    /\ hdPc = "loop"
    /\ IF ltUint32(hdI, hdCount)
       THEN IF sliceInside(mulUint32(hdI, sizeofInt32),
                           mulUint32(incUint32(hdI), sizeofInt32), hdLen)
            THEN hdI' = incUint32(hdI) /\ hdPc' = "loop"
            ELSE hdI' = hdI /\ hdPc' = "panic"
       ELSE hdI' = hdI /\ hdPc' = "done"
    /\ UNCHANGED <<notHeader, hdOp, hdCount, hdLen>>

NextHeader ==
    \/ \E op \in {"CreateFileFromIncrement", "WritePagesFromIncrement"}, full \in BOOLEAN :
          CallGetIncrementHeaderFields(op, full)
    \/ DiffMapLoop

SpecHeader == InitHeader /\ [][NextHeader]_vars

\* C40: for every uint32 diffBlockCount the header reader allocates exactly
\* 4*diffBlockCount bytes, and every diffMap[i*4 : (i+1)*4] with
\* i < diffBlockCount lies inside diffMap.
C40_IndexInsideDiffMap ==
    hdPc \in {"loop", "panic", "done"} =>
        /\ ~mulWraps(hdCount, sizeofInt32)
        /\ hdLen = mulUint32(hdCount, sizeofInt32)
        /\ hdPc # "panic"

(***************************************************************************)
(* Size tracking of Upload: SpecSize.  NewUploader makes the counter, a    *)
(* clone shares it, Upload wraps the content in a WithSizeReader unless    *)
(* tarSize is nil, and every Read through the wrapper adds its bytes.      *)
(***************************************************************************)
\* Upload calls made in one run
MaxUploads == 2

\* Greatest length of an uploaded content, in bytes
MaxContent == 2

SizeUploaders == {"uploader", "clone"}

\* uploader.tarSize after DisableSizeTracking, were the assignment left out
DisableSizeTracking_kept(tarSize) == tarSize

\* DisableSizeTracking: uploader.tarSize = nil
DisableSizeTracking(tarSize) == "nil"

\* Upload: `if uploader.tarSize != nil`, the content is wrapped
sizeTracked(tarSize) == tarSize # "nil"

\* WithSizeReader.Read: the n bytes read are added to the counter
WithSizeReaderRead(counter, n) == counter + n

InitSize ==
    /\ UploadIdle
    /\ PipeIdle
    /\ CryptIdle
    /\ FetchIdle
    /\ PartsIdle
    /\ MetaIdle
    /\ HeaderIdle
    /\ PageIdle
    /\ RestoreIdle
    /\ WalIdle
    /\ CopyIdle
    /\ ComposeIdle
    /\ QueryIdle
    /\ LzoIdle
    /\ ExistsIdle
    /\ FileTarIdle
    /\ PushIdle
    /\ szTar = [u \in SizeUploaders |-> IF u = "uploader" THEN "size" ELSE "absent"]
    /\ szOff = {}
    /\ szCounter = 0
    /\ szUp = <<>>

\* uploader.clone(): the clone gets the same tarSize pointer
SizeClone ==
    /\ szTar["clone"] = "absent"
    /\ szTar' = [szTar EXCEPT !["clone"] = szTar["uploader"]]
    /\ UNCHANGED <<notSize, szOff, szCounter, szUp>>

\* u.DisableSizeTracking()
CallDisableSizeTracking(u) ==
    /\ szTar[u] # "absent"
    /\ u \notin szOff
    /\ szTar' = [szTar EXCEPT ![u] = DisableSizeTracking(szTar[u])]
    /\ szOff' = szOff \cup {u}
    /\ UNCHANGED <<notSize, szCounter, szUp>>

\* u.Upload(path, content) with a content of len > 0 bytes: the content is
\* wrapped or not, and the retry loop is entered
SizeUploadCall(u, len) ==
    /\ szTar[u] # "absent"
    /\ Len(szUp) < MaxUploads
    /\ szUp' = Append(szUp, [wrapped |-> sizeTracked(szTar[u]),
                             late |-> u \in szOff, left |-> len,
                             attempt |-> 1, pc |-> "put"])
    /\ UNCHANGED <<notSize, szTar, szOff, szCounter>>

\* PutObject reads n bytes of the content of the k-th Upload
SizeRead(k, n) ==
    /\ k \in 1..Len(szUp)
    /\ szUp[k].pc = "put"
    /\ n <= szUp[k].left
    /\ szUp' = [szUp EXCEPT ![k].left = @ - n]
    /\ szCounter' = IF szUp[k].wrapped THEN WithSizeReaderRead(szCounter, n)
                    ELSE szCounter
    /\ UNCHANGED <<notSize, szTar, szOff>>

\* An Upload that has returned: its locals are gone
sizeReturned(up, err) ==
    [wrapped |-> FALSE, late |-> FALSE, left |-> 0, attempt |-> 0, pc |-> err]

\* PutObject of the k-th Upload returns: nil ends the loop, an error starts
\* the next attempt with the same reader until the retries are used up
SizePutObjectReturn(k, ok) ==
    /\ k \in 1..Len(szUp)
    /\ szUp[k].pc = "put"
    /\ szUp' = [szUp EXCEPT
                  ![k] = IF ok THEN sizeReturned(szUp[k], "nil")
                         ELSE IF szUp[k].attempt < retries
                         THEN [szUp[k] EXCEPT !.attempt = szUp[k].attempt + 1]
                         ELSE sizeReturned(szUp[k], "exhausted")]
    /\ UNCHANGED <<notSize, szTar, szOff, szCounter>>

NextSize ==
    \/ SizeClone
    \/ \E u \in SizeUploaders : CallDisableSizeTracking(u)
    \/ \E u \in SizeUploaders, len \in 1..MaxContent : SizeUploadCall(u, len)
    \/ \E k \in 1..MaxUploads, n \in 1..MaxContent : SizeRead(k, n)
    \/ \E k \in 1..MaxUploads, ok \in BOOLEAN : SizePutObjectReturn(k, ok)

SpecSize == InitSize /\ [][NextSize]_vars

\* C31: the byte counter never decreases, and a step of an Upload that was
\* called on an uploader after DisableSizeTracking was called on it leaves
\* the counter as it is.
C31_MonotonicAndDetachable ==
    [][/\ szCounter' >= szCounter
       /\ \A k \in 1..Len(szUp) :
             (szUp[k].late /\ szUp'[k] # szUp[k]) => szCounter' = szCounter]_vars

\* C31 witness: the counter has counted an Upload, and an Upload called after
\* DisableSizeTracking has read all its bytes in its last attempt without
\* being counted
C31_Witness ==
    /\ szCounter > 0
    /\ \E k \in 1..Len(szUp) :
          /\ szUp[k].late
          /\ szUp[k].left = 0
          /\ szUp[k].attempt = retries

(***************************************************************************)
(* walMetadataBulkUploader: SpecMeta.  The per-WAL metadata files of one   *)
(* group of segments are merged into one object, the object is uploaded    *)
(* and the local files are removed.                                        *)
(***************************************************************************)
\* Local metadata files the glob can match
MaxMetaFiles == 2

MetaFiles == 1..MaxMetaFiles

\* The files of a set in the order of the glob
RECURSIVE globOrder(_)
globOrder(S) ==
    IF S = {} THEN <<>>
    ELSE LET f == CHOOSE x \in S : \A y \in S : x <= y
         IN <<f>> \o globOrder(S \ {f})

\* json.Unmarshal(file, &walMetadata) of what ioutil.ReadFile gave: nil only
\* for a file that was read and holds a JSON object
unmarshalErr(kind) == IF kind = "good" THEN "nil" ELSE "error"

InitMeta ==
    /\ UploadIdle
    /\ PipeIdle
    /\ CryptIdle
    /\ FetchIdle
    /\ PartsIdle
    /\ SizeIdle
    /\ HeaderIdle
    /\ PageIdle
    /\ RestoreIdle
    /\ WalIdle
    /\ CopyIdle
    /\ ComposeIdle
    /\ QueryIdle
    /\ LzoIdle
    /\ ExistsIdle
    /\ FileTarIdle
    /\ PushIdle
    /\ mdKind \in [MetaFiles -> {"absent", "good", "unreadable", "unparsable"}]
    /\ mdPresent = {f \in MetaFiles : mdKind[f] # "absent"}
    /\ mdGlob = <<>>
    /\ mdI = 0
    /\ mdArray = {}
    /\ mdUpload = "none"
    /\ mdPc = "none"

\* walMetadataBulkUploader(uploader, walFilePath): the glob
walMetadataBulkUploader ==
    /\ mdPc = "none"
    /\ mdGlob' = globOrder(mdPresent)
    /\ mdPc' = "read"
    /\ UNCHANGED <<notMeta, mdKind, mdPresent, mdI, mdArray, mdUpload>>

\* One turn of the first loop: the file is read and parsed, and its entries
\* are merged when json.Unmarshal returned nil
ReadMetadataFile ==
    /\ mdPc = "read"
    /\ mdI < Len(mdGlob)
    /\ mdI' = mdI + 1
    /\ mdArray' = IF unmarshalErr(mdKind[mdGlob[mdI + 1]]) = "nil"
                  THEN mdArray \cup {mdGlob[mdI + 1]}
                  ELSE mdArray
    /\ UNCHANGED <<notMeta, mdKind, mdPresent, mdGlob, mdUpload, mdPc>>

\* _ = uploader.Upload(walSearchString+".json", bytes.NewReader(dtoBody))
UploadConsolidated(ok) ==
    /\ mdPc = "read"
    /\ mdI = Len(mdGlob)
    /\ mdUpload' = IF ok THEN "nil" ELSE "error"
    /\ mdI' = 0
    /\ mdPc' = "remove"
    /\ UNCHANGED <<notMeta, mdKind, mdPresent, mdGlob, mdArray>>

\* One turn of the second loop: os.Remove(walMetadataFile), whose error is
\* logged
RemoveMetadataFile(ok) ==
    /\ mdPc = "remove"
    /\ mdI < Len(mdGlob)
    /\ mdI' = mdI + 1
    /\ mdPresent' = IF ok THEN mdPresent \ {mdGlob[mdI + 1]} ELSE mdPresent
    /\ UNCHANGED <<notMeta, mdKind, mdGlob, mdArray, mdUpload, mdPc>>

\* walMetadataBulkUploader returns
BulkUploaderReturn ==
    /\ mdPc = "remove"
    /\ mdI = Len(mdGlob)
    /\ mdPc' = "done"
    /\ UNCHANGED <<notMeta, mdKind, mdPresent, mdGlob, mdI, mdArray, mdUpload>>

NextMeta ==
    \/ walMetadataBulkUploader
    \/ ReadMetadataFile
    \/ \E ok \in BOOLEAN : UploadConsolidated(ok)
    \/ \E ok \in BOOLEAN : RemoveMetadataFile(ok)
    \/ BulkUploaderReturn

SpecMeta == InitMeta /\ [][NextMeta]_vars

\* C35: a local metadata file is removed only if its entries are in a
\* consolidated object whose upload succeeded; after a failed upload, and
\* for a file that could not be read or parsed, the local file is still
\* there.
C35_RemovedOnlyIfUploaded ==
    \A f \in MetaFiles :
        (mdKind[f] # "absent" /\ f \notin mdPresent) =>
            (f \in mdArray /\ mdUpload = "nil")

(***************************************************************************)
(* PushStreamParts: SpecParts.  Each turn of the loop reads at most        *)
(* maxFileSize bytes of the stream through an io.LimitReader, compresses   *)
(* them and uploads them as the part backupName_i.                         *)
(***************************************************************************)
\* Greatest length of the input stream, in bytes
MaxStream == 3

\* Greatest maxFileSize drawn
MaxPartSize == 2

\* The loop variable and the list of files are followed up to this index,
\* which no terminating run of the streams drawn reaches; beyond it only the
\* control state is followed
MaxPartIndex == MaxStream + 2

\* The input streams: byte j of a stream is j
Streams == {[j \in 1..n |-> j] : n \in 0..MaxStream}

\* io.LimitReader(stream, n) read to its end: the bytes it yields from the
\* stream at offset off
LimitReader(stream, off, n) ==
    SubSeq(stream, off + 1, off + Min(IF n < 0 THEN 0 ELSE n, Len(stream) - off))

\* CompressAndEncrypt of the bytes of a part
compressPart(data) == [j \in 1..Len(data) |-> Compressed(data[j])] \o <<Footer>>

\* The uncompressed bytes that the frames of a stored object hold
uncompressPart(frames) ==
    LET body == SelectSeq(frames, LAMBDA f : ~f.last)
    IN [j \in 1..Len(body) |-> body[j].z]

\* The loop's exit test after a part was uploaded
partsBreak(uncompressedSize, maxFileSize) == uncompressedSize < maxFileSize

\* The concatenation of the uncompressed contents of the first n objects
RECURSIVE joinParts(_, _)
joinParts(stored, n) ==
    IF n = 0 THEN <<>>
    ELSE joinParts(stored, n - 1) \o uncompressPart(stored[n].content)

InitParts ==
    /\ UploadIdle
    /\ PipeIdle
    /\ CryptIdle
    /\ FetchIdle
    /\ MetaIdle
    /\ SizeIdle
    /\ HeaderIdle
    /\ PageIdle
    /\ RestoreIdle
    /\ WalIdle
    /\ CopyIdle
    /\ ComposeIdle
    /\ QueryIdle
    /\ LzoIdle
    /\ ExistsIdle
    /\ FileTarIdle
    /\ PushIdle
    /\ psInput \in Streams
    /\ psMax \in 0..MaxPartSize
    /\ psOff = 0
    /\ psI = 0
    /\ psFiles = <<>>
    /\ psCur = <<>>
    /\ psAttempt = 0
    /\ psLost = 0
    /\ psStored = <<>>
    /\ psPc = "none"

\* PushStreamParts(stream): `for i := 1; ...`
PushStreamPartsCall ==
    /\ psPc = "none"
    /\ psI' = 1
    /\ psPc' = "part"
    /\ UNCHANGED <<notParts, psInput, psMax, psOff, psFiles, psCur, psAttempt, psLost,
                   psStored>>

\* One turn up to the call of Upload: PushStreamToDestination compresses what
\* the LimitReader yields, and the name of the part is appended to files
PushStreamToDestination ==
    /\ psPc = "part"
    /\ psCur' = LimitReader(psInput, psOff, psMax)
    /\ psOff' = psOff + Len(psCur')
    /\ psFiles' = IF Len(psFiles) < MaxPartIndex THEN Append(psFiles, psI) ELSE psFiles
    /\ psAttempt' = 1
    /\ psLost' = 0
    /\ psPc' = "upload"
    /\ UNCHANGED <<notParts, psInput, psMax, psI, psStored>>

\* One attempt of Upload for the part: a PutObject that fails has taken k
\* frames from the pipe, one that succeeds stores the frames that are left.
\* After Upload returned nil the loop ends when the part was short.
PartPutObject(ok, k) ==
    /\ psPc = "upload"
    /\ psLost + k <= Len(compressPart(psCur))
    /\ IF ok
       THEN /\ psStored' =
                 IF Len(psStored) < MaxPartIndex
                 THEN Append(psStored,
                        [name |-> psI,
                         content |-> SubSeq(compressPart(psCur), psLost + 1,
                                            Len(compressPart(psCur)))])
                 ELSE psStored
            /\ psPc' = IF partsBreak(Len(psCur), psMax) THEN "done" ELSE "part"
            /\ psI' = IF partsBreak(Len(psCur), psMax) \/ psI = MaxPartIndex
                      THEN psI ELSE psI + 1
            /\ psAttempt' = 0
            /\ psLost' = 0
       ELSE /\ psStored' = psStored
            /\ psI' = psI
            /\ psLost' = psLost + k
            /\ psAttempt' = IF psAttempt < retries THEN psAttempt + 1 ELSE psAttempt
            /\ psPc' = IF psAttempt < retries THEN "upload" ELSE "error"
    /\ UNCHANGED <<notParts, psInput, psMax, psOff, psFiles, psCur>>

NextParts ==
    \/ PushStreamPartsCall
    \/ PushStreamToDestination
    \/ \E ok \in BOOLEAN, k \in 0..(MaxPartSize + 1) : PartPutObject(ok, k)

SpecParts == InitParts /\ [][NextParts]_vars

\* A loop that can run runs, and an Upload that is given the storage often
\* enough without a failure succeeds
SpecPartsFair ==
    /\ SpecParts
    /\ WF_vars(PushStreamPartsCall)
    /\ WF_vars(PushStreamToDestination)
    /\ WF_vars(\E ok \in BOOLEAN, k \in 0..(MaxPartSize + 1) : PartPutObject(ok, k))

\* C36: when PushStreamParts returns without error, the parts are named
\* backupName_1, backupName_2, ... without gaps, each holds at most
\* maxFileSize uncompressed bytes, and the uncompressed contents of the parts
\* in index order, put together, are the input stream.
C36_SplitWithoutLoss ==
    psPc = "done" =>
        /\ psFiles = [j \in 1..Len(psFiles) |-> j]
        /\ Len(psStored) = Len(psFiles)
        /\ \A j \in 1..Len(psStored) :
              /\ psStored[j].name = j
              /\ Len(uncompressPart(psStored[j].content)) <= psMax
        /\ joinParts(psStored, Len(psStored)) = psInput

\* C37: PushStreamParts terminates for every finite stream and every
\* maxFileSize, 0 included.
C37_Terminates == <>(psPc \in {"done", "error"})

(***************************************************************************)
(* StreamBackupToStdin, StreamBackupToCommandStdin and the fetcher of      *)
(* GetCommandStreamFetcher: SpecFetch.  The restore command is a process   *)
(* of its own that exits when it chooses; cmd.Wait returns once it has.    *)
(***************************************************************************)
StreamFunctions == {"StreamBackupToStdin", "StreamBackupToCommandStdin", "CommandStreamFetcher"}

\* Chunks of the backup that the download writes to stdin
MaxFetchChunks == 2

\* Exit codes of the restore command
ExitCodes == {0, 1}

\* cmd.Wait() of a command that exited with code: an ExitError for a code
\* other than 0, else nil or the error of copying the command's output
WaitErrors(code) == IF code # 0 THEN {"ExitError"} ELSE {"nil", "ioError"}

\* What the function returns after cmd.Wait returned cmdErr, the download
\* having returned loadErr.  The fetcher ends the process on an error.
returnAfterWait(fn, loadErr, cmdErr) ==
    IF fn = "StreamBackupToCommandStdin"
    THEN cmdErr
    ELSE LET err == IF cmdErr # "nil" THEN cmdErr
                    ELSE IF loadErr # "nil" THEN "downloadError" ELSE "nil"
         IN IF fn = "CommandStreamFetcher" /\ err # "nil" THEN "fatal" ELSE err

\* Where the function goes after the download returned
afterLoad(fn, loadErr) ==
    IF fn = "StreamBackupToCommandStdin" /\ loadErr # "nil" THEN "returned" ELSE "wait"

InitFetch ==
    /\ UploadIdle
    /\ PipeIdle
    /\ CryptIdle
    /\ PartsIdle
    /\ MetaIdle
    /\ SizeIdle
    /\ HeaderIdle
    /\ PageIdle
    /\ RestoreIdle
    /\ WalIdle
    /\ CopyIdle
    /\ ComposeIdle
    /\ QueryIdle
    /\ LzoIdle
    /\ ExistsIdle
    /\ FileTarIdle
    /\ PushIdle
    /\ sfFn = "none"
    /\ sfPc = "none"
    /\ sfCmd = "notStarted"
    /\ sfExit = -1
    /\ sfSent = 0
    /\ sfLoadErr = "none"
    /\ sfCmdErr = "none"
    /\ sfRet = "none"

\* One of the three functions is called with a command that was not started
StreamCall(fn) ==
    /\ sfPc = "none"
    /\ sfFn' = fn
    /\ sfPc' = "pipe"
    /\ UNCHANGED <<notFetch, sfCmd, sfExit, sfSent, sfLoadErr, sfCmdErr, sfRet>>

\* stdin, err := cmd.StdinPipe()
StdinPipe(ok) ==
    /\ sfPc = "pipe"
    /\ sfPc' = IF ok THEN "start" ELSE "returned"
    /\ sfRet' = IF ok THEN sfRet
                ELSE IF sfFn = "CommandStreamFetcher" THEN "fatal" ELSE "pipeError"
    /\ UNCHANGED <<notFetch, sfFn, sfCmd, sfExit, sfSent, sfLoadErr, sfCmdErr>>

\* err = cmd.Start()
CmdStart(ok) ==
    /\ sfPc = "start"
    /\ sfCmd' = IF ok THEN "running" ELSE sfCmd
    /\ sfPc' = IF ok THEN "load" ELSE "returned"
    /\ sfRet' = IF ok THEN sfRet
                ELSE IF sfFn = "CommandStreamFetcher" THEN "fatal" ELSE "startError"
    /\ UNCHANGED <<notFetch, sfFn, sfExit, sfSent, sfLoadErr, sfCmdErr>>

\* The restore command exits
CmdExits(code) ==
    /\ sfCmd = "running"
    /\ sfCmd' = "exited"
    /\ sfExit' = code
    /\ UNCHANGED <<notFetch, sfFn, sfPc, sfSent, sfLoadErr, sfCmdErr, sfRet>>

\* The download writes a chunk of the backup to stdin, which the running
\* command reads
LoaderWrite ==
    /\ sfPc = "load"
    /\ sfCmd = "running"
    /\ sfSent < MaxFetchChunks
    /\ sfSent' = sfSent + 1
    /\ UNCHANGED <<notFetch, sfFn, sfPc, sfCmd, sfExit, sfLoadErr, sfCmdErr, sfRet>>

\* err = backupLoader(backup, stdin), or downloadAndDecompressStream(backup,
\* stdin), returns
BackupLoaderReturn(ok) ==
    /\ sfPc = "load"
    /\ sfLoadErr' = IF ok THEN "nil" ELSE "error"
    /\ sfPc' = afterLoad(sfFn, sfLoadErr')
    /\ sfRet' = IF sfPc' = "returned" THEN "downloadError" ELSE sfRet
    /\ UNCHANGED <<notFetch, sfFn, sfCmd, sfExit, sfSent, sfCmdErr>>

\* cmd.Wait() returns, which it does once the command has exited, and the
\* function returns
CmdWaitReturn(cmdErr) ==
    /\ sfPc = "wait"
    /\ sfCmd = "exited"
    /\ cmdErr \in WaitErrors(sfExit)
    /\ sfCmdErr' = cmdErr
    /\ sfRet' = returnAfterWait(sfFn, sfLoadErr, cmdErr)
    /\ sfPc' = "returned"
    /\ UNCHANGED <<notFetch, sfFn, sfCmd, sfExit, sfSent, sfLoadErr>>

NextFetch ==
    \/ \E fn \in StreamFunctions : StreamCall(fn)
    \/ \E ok \in BOOLEAN : StdinPipe(ok)
    \/ \E ok \in BOOLEAN : CmdStart(ok)
    \/ \E code \in ExitCodes : CmdExits(code)
    \/ LoaderWrite
    \/ \E ok \in BOOLEAN : BackupLoaderReturn(ok)
    \/ \E cmdErr \in {"nil", "ExitError", "ioError"} : CmdWaitReturn(cmdErr)

SpecFetch == InitFetch /\ [][NextFetch]_vars

\* C38: once the command was started, each of the three functions returns
\* only after cmd.Wait returned, a failed download included; and
\* StreamBackupToStdin returns nil only if the download and the command both
\* succeeded, the command's error going before the download's.
C38_WaitsBeforeReturn ==
    (sfPc = "returned" /\ sfCmd # "notStarted") =>
        /\ sfCmd = "exited"
        /\ sfCmdErr # "none"
        /\ sfFn = "StreamBackupToStdin" =>
              /\ sfRet = "nil" <=> (sfLoadErr = "nil" /\ sfCmdErr = "nil")
              /\ sfCmdErr # "nil" => sfRet = sfCmdErr

(***************************************************************************)
(* Crypter.Encrypt and setupPubKey: SpecCrypt.  Concurrent Encrypt calls   *)
(* on one Crypter; setupPubKey tests PubKey under the read lock and again  *)
(* under the write lock before it reads the key ring.                      *)
(***************************************************************************)
\* Concurrent Encrypt calls on the Crypter
MaxEncrypts == 3

EncryptCalls == 1..MaxEncrypts

\* PubKey == nil
nilKey == [from |-> "nil", n |-> 0]

\* The key ring CrypterFromKeyRing puts in a new Crypter
ringKey == [from |-> "ring", n |-> 0]

\* The entity list that the n-th read of the key ring gives
loadedKey(n) == [from |-> "load", n |-> n]

\* The test under the write lock, were it left out
alreadySetUp_skipped(pubKey) == FALSE

\* `if crypter.PubKey != nil { // already set up`
alreadySetUp(pubKey) == pubKey # nilKey

InitCrypt ==
    /\ UploadIdle
    /\ PipeIdle
    /\ FetchIdle
    /\ PartsIdle
    /\ MetaIdle
    /\ SizeIdle
    /\ HeaderIdle
    /\ PageIdle
    /\ RestoreIdle
    /\ WalIdle
    /\ CopyIdle
    /\ ComposeIdle
    /\ QueryIdle
    /\ LzoIdle
    /\ ExistsIdle
    /\ FileTarIdle
    /\ PushIdle
    /\ crPubKey \in {nilKey, ringKey}
    /\ crLoads = 0
    /\ crPc = [g \in EncryptCalls |-> "idle"]
    /\ crReaders = {}
    /\ crWriter = 0
    /\ crSeen = [g \in EncryptCalls |-> nilKey]

\* Encrypt(writer) calls setupPubKey: crypter.mutex.RLock()
SetupRLock(g) ==
    /\ crPc[g] = "idle"
    /\ crWriter = 0
    /\ crReaders' = crReaders \cup {g}
    /\ crPc' = [crPc EXCEPT ![g] = "rlocked"]
    /\ UNCHANGED <<notCrypt, crPubKey, crLoads, crWriter, crSeen>>

\* The test under the read lock and RUnlock: setupPubKey returns nil when
\* the key is there
SetupRUnlock(g) ==
    /\ crPc[g] = "rlocked"
    /\ crReaders' = crReaders \ {g}
    /\ crPc' = [crPc EXCEPT ![g] = IF crPubKey # nilKey THEN "encrypt" ELSE "unlocked"]
    /\ UNCHANGED <<notCrypt, crPubKey, crLoads, crWriter, crSeen>>

\* crypter.mutex.Lock()
SetupLock(g) ==
    /\ crPc[g] = "unlocked"
    /\ crWriter = 0
    /\ crReaders = {}
    /\ crWriter' = g
    /\ crPc' = [crPc EXCEPT ![g] = "locked"]
    /\ UNCHANGED <<notCrypt, crPubKey, crLoads, crReaders, crSeen>>

\* The rest of setupPubKey under the write lock: the second test, the read
\* of the key ring, which gives an entity list or an error, the assignment
\* and the deferred Unlock
SetupLoad(g, ok) ==
    /\ crPc[g] = "locked"
    /\ crWriter' = 0
    /\ IF alreadySetUp(crPubKey)
       THEN /\ crPc' = [crPc EXCEPT ![g] = "encrypt"]
            /\ UNCHANGED <<crPubKey, crLoads>>
       ELSE IF ok
       THEN /\ crPubKey' = loadedKey(crLoads + 1)
            /\ crLoads' = crLoads + 1
            /\ crPc' = [crPc EXCEPT ![g] = "encrypt"]
       ELSE /\ crPc' = [crPc EXCEPT ![g] = "failed"]
            /\ UNCHANGED <<crPubKey, crLoads>>
    /\ UNCHANGED <<notCrypt, crReaders, crSeen>>

\* openpgp.Encrypt(bufferedWriter, crypter.PubKey, nil, nil, nil)
EncryptWithKey(g) ==
    /\ crPc[g] = "encrypt"
    /\ crSeen' = [crSeen EXCEPT ![g] = crPubKey]
    /\ crPc' = [crPc EXCEPT ![g] = "done"]
    /\ UNCHANGED <<notCrypt, crPubKey, crLoads, crReaders, crWriter>>

NextCrypt ==
    \/ \E g \in EncryptCalls : SetupRLock(g)
    \/ \E g \in EncryptCalls : SetupRUnlock(g)
    \/ \E g \in EncryptCalls : SetupLock(g)
    \/ \E g \in EncryptCalls, ok \in BOOLEAN : SetupLoad(g, ok)
    \/ \E g \in EncryptCalls : EncryptWithKey(g)

SpecCrypt == InitCrypt /\ [][NextCrypt]_vars

\* C39: under every interleaving of the Encrypt calls the key ring is
\* assigned at most once, a PubKey that is there is never replaced, every
\* call that reaches openpgp.Encrypt hands it a PubKey that is not nil, and
\* a call whose load failed leaves PubKey nil.
C39_LoadedOnce ==
    /\ [](crLoads <= 1)
    /\ [](\A g \in EncryptCalls : crPc[g] = "done" => crSeen[g] # nilKey)
    /\ [][/\ crPubKey # nilKey => crPubKey' = crPubKey
          /\ \A g \in EncryptCalls :
                (crPc[g] # "failed" /\ crPc'[g] = "failed") => crPubKey' = nilKey]_vars

\* C39 witness: a call that found PubKey nil under the read lock holds the
\* write lock while PubKey has been loaded by another call, which has handed
\* the loaded key to openpgp.Encrypt
C39_Witness ==
    /\ crWriter # 0
    /\ crPubKey = loadedKey(1)
    /\ \E g \in EncryptCalls : crPc[g] = "done" /\ crSeen[g] = loadedKey(1)

====
